---------------------------- MODULE Spec2Model ----------------------------
(***************************************************************************)
(* The change-notification subsystem of the RADIUS accounting server:      *)
(* RedisNotifier (internal/notifier) with its forwarding goroutine, and    *)
(* the consumer loop of cmd/radius-controlplane-logger, its FileLogger     *)
(* (internal/logger) and the shutdown of its main; and the accounting     *)
(* server: the events of internal/models, RedisStorage (internal/storage)  *)
(* and the request handler of cmd/radius-controlplane.                     *)
(*                                                                         *)
(* Strings are sequences of tokens, so that prefix tests, prefix removal   *)
(* and concatenation are computed and not assumed.  A nil pointer or an    *)
(* absent value is the empty sequence <<>>, a present one a one-element    *)
(* sequence.  A nil error is the empty string "".                          *)
(***************************************************************************)
EXTENDS Integers, Sequences, FiniteSets, TLC

VARIABLES
    client,      \* rn.client: "open" or "closed" (never nil after the constructor)
    pubsub,      \* rn.pubsub: <<>> (nil) or <<[patterns, closed]>>
    patterns,    \* rn.patterns: the keyspace patterns of the last Subscribe
    ctxDone,     \* the context handed to Subscribe and used by the consumer loop
    fwdPc,       \* forwarding goroutine: "none", "select", "send", "done"
    fwdEvent,    \* the parsed event the goroutine holds at the inner select
    eventChan,   \* the buffer of eventChan
    chanClosed,  \* close(eventChan) has run
    taken,       \* history: raw messages the goroutine received, in order
    dropped,     \* history: events the goroutine held when it returned
    consPc,      \* consumer loop: "idle", "loop", "ctx_done", "chan_closed"
    delivered,   \* history: events the consumer loop received, in order
    lastCall,    \* the last API call on the notifier and what it returned
    file,        \* fl.file: [data, synced, open, closes]
    flClosed,    \* fl.closed
    mutex,       \* fl.mutex: "" (free) or the goroutine that holds it
    logPc,       \* each goroutine's place in Log or Close: "idle", "lock",
                 \* "locked", "sync"
    calls,       \* history: the calls of Log and Close, with what they returned
    deferred,    \* main: how many of its deferred calls have run
    parseIn,     \* the raw message handed to parseMessage on its own
    parseOut,    \* what parseMessage returned for it
    pktIn,       \* the packet handed to ParseRADIUSPacket on its own: <<>> is nil
    pktOut,      \* what ParseRADIUSPacket returned for it
    rec,         \* the event whose methods are called on their own
    recOut,      \* what Validate, GenerateRedisKey, GetType, Store and a read
                 \* of the key returned for it
    db,          \* the keys of the Redis database 0 with their values
    storeClient, \* rs.client: "open" or "closed"
    closeResults,\* history: what the calls of RedisStorage.Close returned
    hPc,         \* the handler: "idle", "parse", "validate", "store", "respond"
    hCur,        \* the request the handler is on, with what happened to it
    handled,     \* history: the requests handled, with what happened to them
    ttl,         \* rs.ttl, in hours
    env,         \* the environment of a process: each variable's value
    cfgOut,      \* what LoadFromEnv and the methods of the Config returned
    boot,        \* main of each program: the startup steps it has passed
    multi        \* a notifier on which Subscribe is called more than once

notifierVars == <<client, pubsub, patterns>>
forwarderVars == <<fwdPc, fwdEvent, eventChan, chanClosed, taken, dropped>>
consumerVars == <<consPc, delivered>>
loggerVars == <<file, flClosed, mutex, logPc, calls>>
parseVars == <<parseIn, parseOut>>
modelsVars == <<pktIn, pktOut, rec, recOut>>
storageVars == <<db, storeClient, closeResults, ttl>>
handlerVars == <<hPc, hCur, handled>>

\* The accounting server.
serverVars == <<modelsVars, storageVars, handlerVars>>

\* The notifier, its context, its goroutine and its consumer.
subscriptionVars ==
    <<notifierVars, ctxDone, forwarderVars, consumerVars, lastCall>>

\* The configuration and the startup of the two programs; the notifier of
\* MultiSpec.
startupVars == <<env, cfgOut, boot, multi>>

vars ==
    <<subscriptionVars, loggerVars, deferred, parseVars, serverVars, startupVars>>

-----------------------------------------------------------------------------
(* Bounds of the model *)

\* Raw messages the source delivers in a run of Spec (contents chosen freely).
MaxMsgs == 3

\* Raw messages the source delivers in a run of FloodSpec: enough to fill the
\* queue, to block the goroutine on it and to have delivered some before.
MaxFlood == 108

\* Calls of Log and Close the goroutines of LoggerSpec make in a run.
MaxLogCalls == 3

\* Raw messages the source delivers in a run of MainSpec.
MaxMainMsgs == 3

\* Tokens of the longest channel name handed to parseMessage in ParseSpec.
MaxChanLen == 3

\* The session times of the events of RecordSpec run from -MaxSessionTime to
\* MaxSessionTime.
MaxSessionTime == 1

\* Requests the handler receives in a run of HandlerSpec.
MaxRequests == 2

\* Calls of RedisStorage.Close in a run of HandlerSpec.
MaxStoreCloses == 3

\* The largest status type of the packets handed to ParseRADIUSPacket in
\* PacketSpec.
MaxStatusType == 7

\* Calls of Subscribe on the notifier of MultiSpec.
MaxSubscribes == 2

\* Notifications the source publishes in a run of MultiSpec.
MaxPublished == 2

-----------------------------------------------------------------------------
(* Strings *)

HasPrefix(s, p) == Len(s) >= Len(p) /\ SubSeq(s, 1, Len(p)) = p

TrimPrefix(s, p) == IF HasPrefix(s, p) THEN SubSeq(s, Len(p) + 1, Len(s)) ELSE s

\* "__keyspace@0__:" as two tokens, so that a channel can carry half of it.
KeyspacePrefix == <<"__keyspace@0__", ":">>

\* fmt.Sprintf("__keyspace@0__:%s", pattern)
KeyspacePattern(pattern) == KeyspacePrefix \o pattern

RECURSIVE KeyspacePatterns(_)
KeyspacePatterns(ps) ==
    IF ps = <<>> THEN <<>>
    ELSE <<KeyspacePattern(Head(ps))>> \o KeyspacePatterns(Tail(ps))

Range(s) == {s[i] : i \in 1..Len(s)}


-----------------------------------------------------------------------------
(* Configuration (internal/config) *)

\* The value of an environment variable is a sequence of characters or of
\* longer tokens; os.Getenv gives the empty string for a variable that is
\* not set.
DigitChars == {"0", "1", "2", "3", "4", "5", "6", "7", "8", "9"}

DigitVal(c) == CHOOSE d \in 0..9 : ToString(d) = c

RECURSIVE DigitsVal(_)
DigitsVal(s) ==
    IF s = <<>> THEN 0
    ELSE DigitsVal(SubSeq(s, 1, Len(s) - 1)) * 10 + DigitVal(s[Len(s)])

\* strconv.Atoi(s): an optional sign and decimal digits, or an error.
Atoi(s) ==
    LET digits == IF s # <<>> /\ s[1] \in {"+", "-"} THEN Tail(s) ELSE s
    IN IF digits = <<>> \/ \E i \in 1..Len(digits) : digits[i] \notin DigitChars
       THEN [ok |-> FALSE, val |-> 0]
       ELSE [ok |-> TRUE,
             val |-> IF s[1] = "-" THEN 0 - DigitsVal(digits)
                     ELSE DigitsVal(digits)]

\* The %d of fmt.Sprintf.
RECURSIVE Itoa(_)
Itoa(n) ==
    IF n < 0 THEN <<"-">> \o Itoa(0 - n)
    ELSE IF n < 10 THEN <<ToString(n)>>
    ELSE Itoa(n \div 10) \o <<ToString(n % 10)>>

\* isValidLogLevel(level)
isValidLogLevel(level) ==
    level \in {<<"debug">>, <<"info">>, <<"warn">>, <<"error">>}

\* What LoadFromEnv returns: the Config (<<>> is nil) and the error (<<>> is
\* nil).
ConfigResult(cfg, err) == [cfg |-> cfg, err |-> err]

Required(name) == <<name, " environment variable is required">>

\* LoadFromEnv() in the environment e; the record TTL is kept in hours.
LoadFromEnv(e) ==
    IF e.RADIUS_SHARED_SECRET = <<>>
    THEN ConfigResult(<<>>, Required("RADIUS_SHARED_SECRET"))
    ELSE IF e.REDIS_HOST = <<>>
    THEN ConfigResult(<<>>, Required("REDIS_HOST"))
    ELSE IF e.RECORD_TTL_HOURS = <<>>
    THEN ConfigResult(<<>>, Required("RECORD_TTL_HOURS"))
    ELSE IF ~Atoi(e.RECORD_TTL_HOURS).ok
    THEN ConfigResult(<<>>, <<"invalid RECORD_TTL_HOURS: ">> \o e.RECORD_TTL_HOURS)
    ELSE IF e.LOG_LEVEL = <<>>
    THEN ConfigResult(<<>>, Required("LOG_LEVEL"))
    ELSE IF ~isValidLogLevel(e.LOG_LEVEL)
    THEN ConfigResult(<<>>, <<"invalid LOG_LEVEL: ">> \o e.LOG_LEVEL)
    ELSE IF e.LOG_FILE = <<>>
    THEN ConfigResult(<<>>, Required("LOG_FILE"))
    ELSE ConfigResult(<<[radiusPort |-> 1813,
                         sharedSecret |-> e.RADIUS_SHARED_SECRET,
                         redisHost |-> e.REDIS_HOST,
                         redisPort |-> 6379,
                         recordTTL |-> Atoi(e.RECORD_TTL_HOURS).val,
                         logLevel |-> e.LOG_LEVEL,
                         logFile |-> e.LOG_FILE]>>,
                      <<>>)

\* (c *Config) Validate: the error, <<>> for nil.
ConfigValidate(c) ==
    IF c.sharedSecret = <<>> THEN <<"shared secret cannot be empty">>
    ELSE IF Len(c.sharedSecret) < 8
    THEN <<"shared secret must be at least 8 characters long">>
    ELSE IF c.redisHost = <<>> THEN <<"redis host cannot be empty">>
    ELSE IF c.recordTTL <= 0 THEN <<"record TTL must be greater than 0">>
    ELSE IF ~isValidLogLevel(c.logLevel) THEN <<"invalid log level: ">> \o c.logLevel
    ELSE IF c.logFile = <<>> THEN <<"log file path cannot be empty">>
    ELSE <<>>

\* fmt.Sprintf("%s:%d", c.redisHost, c.redisPort)
GetRedisAddr(c) == c.redisHost \o <<":">> \o Itoa(c.redisPort)

GetRecordTTL(c) == c.recordTTL

GetLogFile(c) == c.logFile

Env(mode, secret, host, port, hours, level, logFile) ==
    [ENV |-> mode, RADIUS_SHARED_SECRET |-> secret, REDIS_HOST |-> host,
     REDIS_PORT |-> port, RECORD_TTL_HOURS |-> hours, LOG_LEVEL |-> level,
     LOG_FILE |-> logFile]

Secret == <<"s", "e", "c", "r", "e", "t", "k", "e", "y", "1", "2", "3">>

\* The environment of the tests of the configuration, without REDIS_PORT.
ValidEnv ==
    Env(<<>>, Secret, <<"localhost">>, <<>>, <<"2", "4">>, <<"info">>,
        <<"/var/log/test.log">>)

\* Nothing was loaded.
NotLoaded ==
    [loaded |-> FALSE, cfg |-> <<>>, err |-> <<>>, checked |-> FALSE,
     validateErr |-> <<>>, addr |-> <<>>]

\* The configuration of e was loaded and found valid.
Loaded(e) ==
    [loaded |-> TRUE, cfg |-> LoadFromEnv(e).cfg, err |-> <<>>,
     checked |-> TRUE, validateErr |-> <<>>,
     addr |-> <<GetRedisAddr(LoadFromEnv(e).cfg[1])>>]

-----------------------------------------------------------------------------
(* The inputs: key patterns, raw messages *)

PatAcct == <<"radius:acct:", "*">>
PatTest == <<"test:", "*">>

\* The pattern lists the caller passes to Subscribe and to Unsubscribe.
SubscribeArgs == {<<>>, <<PatAcct>>, <<PatAcct, PatTest>>}
UnsubscribeArgs == {<<>>, <<PatAcct>>, <<PatTest>>, <<PatAcct, PatTest>>}

Msg(channel, payload) == [Channel |-> channel, Payload |-> payload]

ChanAcct == KeyspacePrefix \o <<"radius:acct:", "testuser:session123">>
ChanTest == KeyspacePrefix \o <<"test:", "key">>
ChanWrongDb == <<"__keyspace@1__", ":", "radius:acct:", "testuser:session123">>
ChanEmpty == <<>>

\* The raw messages of Spec: matching channels, a wrong prefix, an empty
\* channel; the operations of the store and an empty payload.
Messages ==
    { Msg(ChanAcct, <<"set">>), Msg(ChanAcct, <<>>), Msg(ChanTest, <<"expire">>),
      Msg(ChanWrongDb, <<"set">>), Msg(ChanEmpty, <<"del">>) }

\* The n-th raw message of FloodSpec: writes to accounting keys, with an
\* expiry every third message and a message of another database every
\* twentieth.
FloodMsg(n) ==
    IF n % 20 = 0 THEN Msg(ChanWrongDb, <<"set">>)
    ELSE IF n % 3 = 0 THEN Msg(ChanAcct, <<"expire">>)
    ELSE Msg(ChanAcct, <<"set">>)

-----------------------------------------------------------------------------
(* The store's publish/subscribe connection (go-redis PubSub), as the        *)
(* notifier uses it                                                          *)

\* Redis glob matching of a channel against a pattern "<literal>*".
GlobMatch(pattern, channel) ==
    /\ pattern # <<>>
    /\ IF pattern[Len(pattern)] = "*"
       THEN HasPrefix(channel, SubSeq(pattern, 1, Len(pattern) - 1))
       ELSE channel = pattern

\* client.PSubscribe(ctx, keyspacePatterns...): a new PubSub on the patterns.
PSubscribe(keyspacePatterns) ==
    <<[patterns |-> Range(keyspacePatterns), closed |-> FALSE]>>

\* The patterns left after pubsub.PUnsubscribe(ctx, keyspacePatterns...):
\* PUNSUBSCRIBE with no pattern unsubscribes from all of them.
PUnsubscribePatterns(active, keyspacePatterns) ==
    IF Len(keyspacePatterns) > 0 THEN active \ Range(keyspacePatterns) ELSE {}

ErrClosed == "redis: client is closed"

\* The error of pubsub.PUnsubscribe and of pubsub.Close on PubSub ps.
PubSubErr(ps) == IF ps.closed THEN ErrClosed ELSE ""

\* pubsub.Channel() is closed: the PubSub was closed, or its client was.
RawEnded == pubsub # <<>> /\ (pubsub[1].closed \/ client = "closed")

\* The source can deliver m: a subscribed pattern matches its channel, or it
\* is traffic that no keyspace pattern of this subsystem matches.
Deliverable(m) ==
    /\ pubsub # <<>>
    /\ ~RawEnded
    /\ \/ \E p \in pubsub[1].patterns : GlobMatch(p, m.Channel)
       \/ ~HasPrefix(m.Channel, KeyspacePrefix)

-----------------------------------------------------------------------------
(* RedisNotifier *)

QueueCapacity == 100

ErrNoPatterns == "no patterns provided"
ErrNotSubscribed == "not subscribed"

Call(op, ps, err, stream) ==
    [op |-> op, patterns |-> ps, err |-> err, stream |-> stream]

\* Mutant of parseMessage: the key is the whole channel name.
parseMessageKeepsPrefix(msg, now) ==
    IF ~HasPrefix(msg.Channel, KeyspacePrefix) THEN <<>>
    ELSE <<[Key |-> msg.Channel, Operation |-> msg.Payload, Timestamp |-> now]>>

\* parseMessage(msg) at time now: <<>> is the nil result.
parseMessage(msg, now) ==
    IF ~HasPrefix(msg.Channel, KeyspacePrefix) THEN <<>>
    ELSE <<[Key |-> TrimPrefix(msg.Channel, KeyspacePrefix),
            Operation |-> msg.Payload,
            Timestamp |-> now]>>

\* NewRedisNotifier: a connected client, no PubSub; nothing runs yet.
NewRedisNotifier ==
    /\ client = "open"
    /\ pubsub = <<>>
    /\ patterns = <<>>
    /\ ctxDone = FALSE
    /\ fwdPc = "none"
    /\ fwdEvent = <<>>
    /\ eventChan = <<>>
    /\ chanClosed = FALSE
    /\ taken = <<>>
    /\ dropped = <<>>
    /\ consPc = "idle"
    /\ delivered = <<>>
    /\ lastCall = Call("NewRedisNotifier", <<>>, "", FALSE)

\* An *os.File: what was written to it (each line with the call that wrote
\* it), how much of that a Sync has flushed, whether the handle is open, and
\* how many times Close was called on it.
OpenFile == [data |-> <<>>, synced |-> 0, open |-> TRUE, closes |-> 0]

\* The goroutines that use the FileLogger: the callers of LoggerSpec, and the
\* consumer loop of main.
LogCallers == {"g1", "g2", "g3"}
MainCaller == "main"

\* NewFileLogger: the opened file, not closed, the mutex free.
NewFileLogger ==
    /\ file = OpenFile
    /\ flClosed = FALSE
    /\ mutex = ""
    /\ logPc = [g \in LogCallers \cup {MainCaller} |-> "idle"]
    /\ calls = <<>>

\* No packet and no event is handed to the functions of internal/models on
\* their own.
NoResults ==
    [validated |-> FALSE, err |-> <<>>, key |-> <<>>, type |-> 0,
     stored |-> FALSE, storeErr |-> "", loaded |-> FALSE, got |-> <<>>]

NotParsed == [done |-> FALSE, event |-> <<>>, err |-> <<>>, reads |-> {}]

ModelsIdle ==
    /\ pktIn = <<>>
    /\ pktOut = NotParsed
    /\ rec = <<>>
    /\ recOut = NoResults

\* NewRedisStorage(cfg): a connected client with the TTL of the
\* configuration; the database is empty.
NewRedisStorage(cfg) ==
    /\ db = [k \in {} |-> <<>>]
    /\ storeClient = "open"
    /\ closeResults = <<>>
    /\ ttl = GetRecordTTL(cfg)

\* No request has come to the handler.
HandlerIdle ==
    /\ hPc = "idle"
    /\ hCur = <<>>
    /\ handled = <<>>

\* The steps of main of cmd/radius-controlplane before it serves, and those
\* of main of cmd/radius-controlplane-logger before its loop.
ServerSteps == <<"dotenv", "config", "validate", "storage", "health", "listen">>
LoggerSteps ==
    <<"dotenv", "config", "validate", "notifier", "health", "sink", "subscribe">>

MainSteps(proc) == IF proc = "server" THEN ServerSteps ELSE LoggerSteps

\* A main that has run nothing yet.
Starting == [state |-> "starting", at |-> 1, results |-> <<>>]

\* A main whose steps all succeeded: it serves.
Serving(steps) ==
    [state |-> "serving", at |-> Len(steps) + 1,
     results |-> [i \in 1..Len(steps) |-> [step |-> steps[i], ok |-> TRUE]]]

Booted == [proc \in {"server", "logger"} |-> Serving(MainSteps(proc))]

\* The valid configuration was loaded and both programs serve.
Started ==
    /\ env = ValidEnv
    /\ cfgOut = Loaded(ValidEnv)
    /\ boot = Booted

\* The notifier of MultiSpec before any call: rn.pubsub is nil (0), no
\* Subscribe has run, the source has published nothing.
MultiIdle == multi = [pubsub |-> 0, subs |-> <<>>, published |-> 0]

\* The two programs, after their constructors.
Init ==
    /\ NewRedisNotifier
    /\ NewFileLogger
    /\ deferred = 0
    /\ parseIn = Msg(<<>>, <<>>)
    /\ parseOut = [done |-> FALSE, event |-> <<>>]
    /\ ModelsIdle
    /\ NewRedisStorage(LoadFromEnv(ValidEnv).cfg[1])
    /\ HandlerIdle
    /\ Started
    /\ MultiIdle

\* Subscribe(ctx, ps), the failing branch: nothing but the error.
SubscribeNoPatterns(ps) ==
    /\ lastCall' = Call("Subscribe", ps, ErrNoPatterns, FALSE)
    /\ UNCHANGED <<notifierVars, ctxDone, forwarderVars, consumerVars>>

\* Subscribe(ctx, ps), past the check: the PubSub, the channel, the goroutine.
\* The caller of main.go enters its consumer loop on the returned channel.
SubscribeStart(ps) ==
    /\ pubsub' = PSubscribe(KeyspacePatterns(ps))
    /\ patterns' = KeyspacePatterns(ps)
    /\ eventChan' = <<>>
    /\ chanClosed' = FALSE
    /\ fwdPc' = "select"
    /\ fwdEvent' = <<>>
    /\ consPc' = "loop"
    /\ lastCall' = Call("Subscribe", ps, "", TRUE)
    /\ UNCHANGED <<client, ctxDone, taken, dropped, delivered>>

\* Mutant of Subscribe: no check of the pattern list.
SubscribeUnchecked(ps) == SubscribeStart(ps)

Subscribe(ps) ==
    IF Len(ps) = 0 THEN SubscribeNoPatterns(ps) ELSE SubscribeStart(ps)

\* Unsubscribe(ps) on a notifier whose pubsub is nil.
UnsubscribeNotSubscribed(ps) ==
    /\ lastCall' = Call("Unsubscribe", ps, ErrNotSubscribed, FALSE)
    /\ UNCHANGED <<notifierVars, ctxDone, forwarderVars, consumerVars>>

\* Mutant of UnsubscribePatterns: with no pattern left the notifier drops its
\* PubSub and is unsubscribed again.
UnsubscribePatternsResets(ps) ==
    /\ pubsub # <<>>
    /\ LET left == PUnsubscribePatterns(pubsub[1].patterns, KeyspacePatterns(ps))
       IN pubsub' = IF left = {} THEN <<>>
                    ELSE <<[pubsub[1] EXCEPT !.patterns = left]>>
    /\ lastCall' = Call("Unsubscribe", ps, PubSubErr(pubsub[1]), FALSE)
    /\ UNCHANGED <<client, patterns, ctxDone, forwarderVars, consumerVars>>

\* Unsubscribe(ps) past the check: rn.pubsub.PUnsubscribe on the keyspace patterns.
UnsubscribePatterns(ps) ==
    /\ pubsub # <<>>
    /\ pubsub' = <<[pubsub[1] EXCEPT
                      !.patterns = PUnsubscribePatterns(@, KeyspacePatterns(ps))]>>
    /\ lastCall' = Call("Unsubscribe", ps, PubSubErr(pubsub[1]), FALSE)
    /\ UNCHANGED <<client, patterns, ctxDone, forwarderVars, consumerVars>>

\* Mutant of Unsubscribe: no check of rn.pubsub; on a nil PubSub the call
\* returns no error.
UnsubscribeUnchecked(ps) ==
    IF pubsub = <<>>
    THEN /\ lastCall' = Call("Unsubscribe", ps, "", FALSE)
         /\ UNCHANGED <<notifierVars, ctxDone, forwarderVars, consumerVars>>
    ELSE UnsubscribePatterns(ps)

Unsubscribe(ps) ==
    IF pubsub = <<>> THEN UnsubscribeNotSubscribed(ps) ELSE UnsubscribePatterns(ps)

\* Mutant of CloseErr: the error of client.Close() is dropped.
CloseErrPubSubOnly == IF pubsub # <<>> THEN PubSubErr(pubsub[1]) ELSE ""

\* Close(): the PubSub's error first, else the client's.
CloseErr ==
    LET err == IF pubsub # <<>> THEN PubSubErr(pubsub[1]) ELSE ""
        closeErr == IF client = "closed" THEN ErrClosed ELSE ""
    IN IF closeErr # "" /\ err = "" THEN closeErr ELSE err

Close ==
    /\ pubsub' = IF pubsub # <<>> THEN <<[pubsub[1] EXCEPT !.closed = TRUE]>> ELSE pubsub
    /\ client' = "closed"
    /\ lastCall' = Call("Close", <<>>, CloseErr, FALSE)
    /\ UNCHANGED <<patterns, ctxDone, forwarderVars, consumerVars>>

\* cancel() of the context.
Cancel ==
    /\ ~ctxDone
    /\ ctxDone' = TRUE
    /\ UNCHANGED <<notifierVars, forwarderVars, consumerVars, lastCall>>

-----------------------------------------------------------------------------
(* The forwarding goroutine of Subscribe *)

\* Mutant of ChanCanSend: a send never blocks (an unbounded queue).
ChanCanSendAlways(q) == TRUE

\* eventChan has room for a send.
ChanCanSend(q) == Len(q) < QueueCapacity

\* Mutant of ChanSend: the event goes to the front of the buffer.
ChanSendFront(q, e) == <<e>> \o q

\* eventChan <- e
ChanSend(q, e) == Append(q, e)

\* Mutant of FwdRecv: a message that parses to nothing ends the goroutine.
FwdRecvReturnOnNil(msg) ==
    /\ fwdPc = "select"
    /\ Deliverable(msg)
    /\ LET event == parseMessage(msg, Len(taken) + 1)
       IN /\ fwdEvent' = event
          /\ fwdPc' = IF event # <<>> THEN "send" ELSE "done"
          /\ chanClosed' = (event = <<>>)
    /\ taken' = Append(taken, msg)
    /\ UNCHANGED <<notifierVars, ctxDone, eventChan, dropped, consumerVars, lastCall>>

\* Mutant of FwdRecv: a message that parses to nothing is forwarded under its
\* whole channel name.
FwdRecvForwardsAll(msg) ==
    /\ fwdPc = "select"
    /\ Deliverable(msg)
    /\ LET event == parseMessage(msg, Len(taken) + 1)
       IN fwdEvent' = IF event # <<>> THEN event
                      ELSE <<[Key |-> msg.Channel, Operation |-> msg.Payload,
                              Timestamp |-> Len(taken) + 1]>>
    /\ fwdPc' = "send"
    /\ taken' = Append(taken, msg)
    /\ UNCHANGED <<notifierVars, ctxDone, eventChan, chanClosed, dropped,
                   consumerVars, lastCall>>

\* case msg, ok := <-rn.pubsub.Channel() with ok: parse, and hold the event
\* for the inner select, or go round the loop when there is none.  The clock
\* of time.Now() is the count of messages received.
FwdRecv(msg) ==
    /\ fwdPc = "select"
    /\ Deliverable(msg)
    /\ LET event == parseMessage(msg, Len(taken) + 1)
       IN /\ fwdEvent' = event
          /\ fwdPc' = IF event # <<>> THEN "send" ELSE "select"
    /\ taken' = Append(taken, msg)
    /\ UNCHANGED <<notifierVars, ctxDone, eventChan, chanClosed, dropped,
                   consumerVars, lastCall>>

\* Mutant of FwdSourceClosed: the goroutine goes round its loop and reads again.
FwdSourceClosedRetries ==
    /\ fwdPc = "select"
    /\ RawEnded
    /\ UNCHANGED subscriptionVars

\* case msg, ok := <-rn.pubsub.Channel() with !ok: return, closing eventChan.
FwdSourceClosed ==
    /\ fwdPc = "select"
    /\ RawEnded
    /\ fwdPc' = "done"
    /\ chanClosed' = TRUE
    /\ UNCHANGED <<notifierVars, ctxDone, fwdEvent, eventChan, taken, dropped,
                   consumerVars, lastCall>>

\* Mutant of FwdSend: the event is sent twice.
FwdSendTwice ==
    /\ fwdPc = "send"
    /\ ChanCanSend(eventChan)
    /\ eventChan' = ChanSend(ChanSend(eventChan, fwdEvent[1]), fwdEvent[1])
    /\ fwdEvent' = <<>>
    /\ fwdPc' = "select"
    /\ UNCHANGED <<notifierVars, ctxDone, chanClosed, taken, dropped,
                   consumerVars, lastCall>>

\* Mutant of FwdSend: a non-blocking send, which discards the event when the
\* queue is full.
FwdSendOrDrop ==
    /\ fwdPc = "send"
    /\ eventChan' = IF ChanCanSend(eventChan)
                    THEN ChanSend(eventChan, fwdEvent[1]) ELSE eventChan
    /\ fwdEvent' = <<>>
    /\ fwdPc' = "select"
    /\ UNCHANGED <<notifierVars, ctxDone, chanClosed, taken, dropped,
                   consumerVars, lastCall>>

\* case eventChan <- *event of the inner select.
FwdSend ==
    /\ fwdPc = "send"
    /\ ChanCanSend(eventChan)
    /\ eventChan' = ChanSend(eventChan, fwdEvent[1])
    /\ fwdEvent' = <<>>
    /\ fwdPc' = "select"
    /\ UNCHANGED <<notifierVars, ctxDone, chanClosed, taken, dropped,
                   consumerVars, lastCall>>

\* Mutant of FwdCtxDone: the inner select has no ctx.Done() case.
FwdCtxDoneOuterOnly ==
    /\ fwdPc = "select"
    /\ ctxDone
    /\ fwdPc' = "done"
    /\ chanClosed' = TRUE
    /\ UNCHANGED <<notifierVars, ctxDone, fwdEvent, eventChan, taken, dropped,
                   consumerVars, lastCall>>

\* Mutant of FwdCtxDone: eventChan is closed and the goroutine goes on.
FwdCtxDoneNoReturn ==
    /\ fwdPc \in {"select", "send"}
    /\ ctxDone
    /\ ~chanClosed
    /\ chanClosed' = TRUE
    /\ UNCHANGED <<notifierVars, ctxDone, fwdPc, fwdEvent, eventChan, taken,
                   dropped, consumerVars, lastCall>>

\* Mutant of FwdCtxDone: the goroutine returns and leaves eventChan open.
FwdCtxDoneLeavesOpen ==
    /\ fwdPc \in {"select", "send"}
    /\ ctxDone
    /\ fwdPc' = "done"
    /\ dropped' = dropped \o fwdEvent
    /\ fwdEvent' = <<>>
    /\ UNCHANGED <<notifierVars, ctxDone, eventChan, chanClosed, taken,
                   consumerVars, lastCall>>

\* case <-ctx.Done() of the outer or of the inner select: return, closing
\* eventChan; an event held at the inner select is lost.
FwdCtxDone ==
    /\ fwdPc \in {"select", "send"}
    /\ ctxDone
    /\ fwdPc' = "done"
    /\ chanClosed' = TRUE
    /\ dropped' = dropped \o fwdEvent
    /\ fwdEvent' = <<>>
    /\ UNCHANGED <<notifierVars, ctxDone, eventChan, taken, consumerVars, lastCall>>

-----------------------------------------------------------------------------
(* The consumer loop of the logger's main *)

\* case event, ok := <-events with ok: the head of the buffer.
ConsumerRecv ==
    /\ consPc = "loop"
    /\ eventChan # <<>>
    /\ delivered' = Append(delivered, Head(eventChan))
    /\ eventChan' = Tail(eventChan)
    /\ UNCHANGED <<notifierVars, ctxDone, fwdPc, fwdEvent, chanClosed, taken,
                   dropped, consPc, lastCall>>

\* case event, ok := <-events with !ok: the channel is closed and drained.
ConsumerChanClosed ==
    /\ consPc = "loop"
    /\ chanClosed
    /\ eventChan = <<>>
    /\ consPc' = "chan_closed"
    /\ UNCHANGED <<notifierVars, ctxDone, forwarderVars, delivered, lastCall>>

\* case <-ctx.Done(): return.
ConsumerCtxDone ==
    /\ consPc = "loop"
    /\ ctxDone
    /\ consPc' = "ctx_done"
    /\ UNCHANGED <<notifierVars, ctxDone, forwarderVars, delivered, lastCall>>

-----------------------------------------------------------------------------
(* FileLogger *)

ErrLoggerClosed == "logger is closed"
ErrWrite == "failed to write to log file"
ErrIO == "input/output error"
ErrFileClosed == "file already closed"

\* time.Now().Format("2006-01-02 15:04:05.000000") on the logical clock.
Timestamp(now) == ToString(now)

\* Mutant of LogLine: no end of line.
LogLineNoNewline(timestamp, message) == <<timestamp, " - ">> \o message

\* fmt.Sprintf("%s - %s\n", timestamp, message)
LogLine(timestamp, message) == <<timestamp, " - ">> \o message \o <<"\n">>

\* f.WriteString(line) that succeeds; call is the call of Log that wrote it.
WriteString(f, line, call) ==
    [f EXCEPT !.data = Append(@, [call |-> call, line |-> line])]

\* f.Sync() that succeeds: all that was written is flushed.
Sync(f) == [f EXCEPT !.synced = Len(f.data)]

\* f.Close(): the handle is released, whatever Close returns.
FileClose(f) == [f EXCEPT !.open = FALSE, !.closes = @ + 1]

\* The error of f.Close(): a handle is closed once.
FileCloseErr(f, fault) ==
    IF ~f.open THEN ErrFileClosed ELSE IF fault THEN ErrIO ELSE ""

\* A call of Close has returned.
CloseReturned ==
    \E i \in 1..Len(calls) : calls[i].op = "Close" /\ calls[i].err # "pending"

\* The call goroutine g is in.
Pending(g) ==
    CHOOSE i \in 1..Len(calls) : calls[i].caller = g /\ calls[i].err = "pending"

\* Goroutine g calls Log(ctx, message).
LogStart(g, message) ==
    /\ logPc[g] = "idle"
    /\ calls' = Append(calls, [caller |-> g, op |-> "Log", message |-> message,
                               err |-> "pending", afterClose |-> CloseReturned])
    /\ logPc' = [logPc EXCEPT ![g] = "lock"]
    /\ UNCHANGED <<file, flClosed, mutex>>

\* Goroutine g calls Close().
CloseStart(g) ==
    /\ logPc[g] = "idle"
    /\ calls' = Append(calls, [caller |-> g, op |-> "Close", message |-> <<>>,
                               err |-> "pending", afterClose |-> CloseReturned])
    /\ logPc' = [logPc EXCEPT ![g] = "lock"]
    /\ UNCHANGED <<file, flClosed, mutex>>

\* fl.mutex.Lock() of Log and of Close.
Lock(g) ==
    /\ logPc[g] = "lock"
    /\ mutex = ""
    /\ mutex' = g
    /\ logPc' = [logPc EXCEPT ![g] = "locked"]
    /\ UNCHANGED <<file, flClosed, calls>>

\* Mutant of Return: the mutex is released only when the call succeeds.
ReturnLockedOnError(g, err) ==
    /\ calls' = [calls EXCEPT ![Pending(g)].err = err]
    /\ mutex' = IF err = "" THEN "" ELSE mutex
    /\ logPc' = [logPc EXCEPT ![g] = "idle"]

\* return err of Log and of Close, with the deferred fl.mutex.Unlock().
Return(g, err) ==
    /\ calls' = [calls EXCEPT ![Pending(g)].err = err]
    /\ mutex' = ""
    /\ logPc' = [logPc EXCEPT ![g] = "idle"]

\* Log on a closed logger.
LogClosed(g) ==
    /\ Return(g, ErrLoggerClosed)
    /\ UNCHANGED <<file, flClosed>>

\* Log on an open logger: the line is written, or the write fails.
LogWrite(g) ==
    /\ \E fault \in BOOLEAN :
          IF fault \/ ~file.open
          THEN Return(g, ErrWrite) /\ UNCHANGED file
          ELSE /\ file' = WriteString(file,
                              LogLine(Timestamp(Len(file.data) + 1),
                                      calls[Pending(g)].message),
                              Pending(g))
               /\ logPc' = [logPc EXCEPT ![g] = "sync"]
               /\ UNCHANGED <<calls, mutex>>
    /\ UNCHANGED flClosed

\* Mutant of LogBody: no check of fl.closed.
LogBodyUnchecked(g) ==
    /\ logPc[g] = "locked"
    /\ calls[Pending(g)].op = "Log"
    /\ LogWrite(g)

\* Log, from the check of fl.closed to the write.
LogBody(g) ==
    /\ logPc[g] = "locked"
    /\ calls[Pending(g)].op = "Log"
    /\ IF flClosed THEN LogClosed(g) ELSE LogWrite(g)

\* Mutant of LogSync: Log returns after the write, with no Sync.
LogSyncSkipped(g) ==
    /\ logPc[g] = "sync"
    /\ Return(g, "")
    /\ UNCHANGED <<file, flClosed>>

\* return fl.file.Sync()
LogSync(g) ==
    /\ logPc[g] = "sync"
    /\ \E fault \in BOOLEAN :
          IF fault
          THEN Return(g, ErrIO) /\ UNCHANGED file
          ELSE Return(g, "") /\ file' = Sync(file)
    /\ UNCHANGED flClosed

\* Mutant of CloseBody: no check of fl.closed.
CloseBodyUnchecked(g) ==
    /\ logPc[g] = "locked"
    /\ calls[Pending(g)].op = "Close"
    /\ \E fault \in BOOLEAN :
          /\ flClosed' = TRUE
          /\ file' = FileClose(file)
          /\ Return(g, FileCloseErr(file, fault))

\* Close, under the mutex.
CloseBody(g) ==
    /\ logPc[g] = "locked"
    /\ calls[Pending(g)].op = "Close"
    /\ IF flClosed
       THEN Return(g, "") /\ UNCHANGED <<file, flClosed>>
       ELSE \E fault \in BOOLEAN :
               /\ flClosed' = TRUE
               /\ file' = FileClose(file)
               /\ Return(g, FileCloseErr(file, fault))

-----------------------------------------------------------------------------
(* main of cmd/radius-controlplane-logger *)

\* fmt.Sprintf("Received update for key: %s, Operation: %s", event.Key,
\* event.Operation)
FormatMessage(event) ==
    <<"Received update for key: ">> \o event.Key
        \o <<", Operation: ">> \o event.Operation

\* Mutant of MainConsumerRecv: only the writes to a key are logged.
MainConsumerRecvSetOnly ==
    /\ logPc[MainCaller] = "idle"
    /\ ConsumerRecv
    /\ IF Head(eventChan).Operation = <<"set">>
       THEN LogStart(MainCaller, FormatMessage(Head(eventChan)))
       ELSE UNCHANGED loggerVars

\* Mutant of MainConsumerRecv: once a call of Log has failed the loop takes
\* the events and logs none.
MainConsumerRecvStopsOnError ==
    /\ logPc[MainCaller] = "idle"
    /\ ConsumerRecv
    /\ IF \E i \in 1..Len(calls) : calls[i].err \notin {"", "pending"}
       THEN UNCHANGED loggerVars
       ELSE LogStart(MainCaller, FormatMessage(Head(eventChan)))

\* One turn of the consumer loop on an event: the message, and the call of
\* fileLogger.Log, whose error is only reported.
MainConsumerRecv ==
    /\ logPc[MainCaller] = "idle"
    /\ ConsumerRecv
    /\ LogStart(MainCaller, FormatMessage(Head(eventChan)))

\* Mutant of DeferOrder: the notifier is closed before the logger.
DeferOrderNotifierFirst == <<"cancel", "redis.Close", "fileLogger.Close">>

\* The deferred calls of main in the order they run, the reverse of the order
\* of their defer statements.
DeferOrder == <<"cancel", "fileLogger.Close", "redis.Close">>

\* One deferred call of main.
RunDeferred(name) ==
    CASE name = "cancel" ->
            /\ ctxDone' = TRUE
            /\ UNCHANGED <<notifierVars, forwarderVars, consumerVars, lastCall,
                           loggerVars>>
      [] name = "fileLogger.Close" ->
            CloseStart(MainCaller) /\ UNCHANGED subscriptionVars
      [] name = "redis.Close" ->
            Close /\ UNCHANGED loggerVars

\* main returns from its loop: its deferred calls run one after the other.
MainDefer ==
    /\ consPc \in {"ctx_done", "chan_closed"}
    /\ logPc[MainCaller] = "idle"
    /\ deferred < Len(DeferOrder)
    /\ deferred' = deferred + 1
    /\ RunDeferred(DeferOrder[deferred + 1])

-----------------------------------------------------------------------------
(* The accounting events of internal/models *)

\* BaseAccountingRecord; the port and the station identifiers are carried
\* along and checked by nothing.
BaseAccountingRecord(username, nasIP, sessionID, clientIP, timestamp) ==
    [Username |-> username, NASIPAddress |-> nasIP, NASPort |-> 1234,
     AcctSessionID |-> sessionID, CallingStationID |-> "00:11:22:33:44:55",
     CalledStationID |-> "AP-001", ClientIP |-> clientIP,
     Timestamp |-> timestamp]

\* The three variants; Type is the dynamic type of the AccountingEvent.
StartRecord(base, framedIP) ==
    [Type |-> "Start", Base |-> base, FramedIPAddress |-> framedIP]

StopRecord(base, sessionTime, terminateCause, inputOctets, outputOctets) ==
    [Type |-> "Stop", Base |-> base, SessionTime |-> sessionTime,
     TerminateCause |-> terminateCause, InputOctets |-> inputOctets,
     OutputOctets |-> outputOctets]

InterimRecord(base, sessionTime, inputOctets, outputOctets) ==
    [Type |-> "Interim", Base |-> base, SessionTime |-> sessionTime,
     InputOctets |-> inputOctets, OutputOctets |-> outputOctets]

\* An error of Validate is the field it is about and the rest of its text;
\* <<>> is nil.
validateBase(b) ==
    IF b.Username = "" THEN <<"username", " is required">>
    ELSE IF b.AcctSessionID = "" THEN <<"acct session id", " is required">>
    ELSE IF b.NASIPAddress = "" THEN <<"NAS IP address", " is required">>
    ELSE IF b.ClientIP = "" THEN <<"client IP", " is required">>
    ELSE <<>>

\* The checks of each variant after those of the base.
validateVariant(r) ==
    CASE r.Type = "Start" ->
            IF r.FramedIPAddress = ""
            THEN <<"framed IP address", " required for Start record">>
            ELSE <<>>
      [] r.Type = "Stop" ->
            IF r.SessionTime = 0
            THEN <<"session time", " required for Stop record">>
            ELSE IF r.TerminateCause = ""
            THEN <<"terminate cause", " required for Stop record">>
            ELSE <<>>
      [] r.Type = "Interim" ->
            IF r.SessionTime = 0
            THEN <<"session time", " required for Interim-Update record">>
            ELSE <<>>

\* Mutant of Validate: the checks of the variant come before those of the base.
ValidateVariantFirst(r) ==
    IF validateVariant(r) # <<>> THEN validateVariant(r) ELSE validateBase(r.Base)

\* (r *StartRecord) Validate, (r *StopRecord) Validate, (r *InterimRecord)
\* Validate.
Validate(r) ==
    IF validateBase(r.Base) # <<>> THEN validateBase(r.Base) ELSE validateVariant(r)

\* GetType: Start, Stop and Interim are iota + 1.
GetType(r) ==
    CASE r.Type = "Start" -> 1
      [] r.Type = "Stop" -> 2
      [] r.Type = "Interim" -> 3

\* fmt.Sprintf("radius:acct:%s:%s:%s", r.Username, r.AcctSessionID, r.Timestamp)
keyPrefix(b) ==
    <<"radius:acct:", b.Username, ":", b.AcctSessionID, ":", b.Timestamp>>

\* GenerateRedisKey of the three variants: "start:" + r.keyPrefix(), ...
GenerateRedisKey(r) ==
    CASE r.Type = "Start" -> <<"start:">> \o keyPrefix(r.Base)
      [] r.Type = "Stop" -> <<"stop:">> \o keyPrefix(r.Base)
      [] r.Type = "Interim" -> <<"interim:">> \o keyPrefix(r.Base)

\* A decoded packet: each attribute is absent (<<>>) or present (<<value>>).
Packet(statusType, userName, nasIP, sessionID, framedIP, sessionTime, cause) ==
    [AcctStatusType |-> statusType, UserName |-> userName,
     NASIPAddress |-> nasIP, NASPort |-> <<1234>>, AcctSessionID |-> sessionID,
     CallingStationID |-> <<"00:11:22:33:44:55">>,
     CalledStationID |-> <<"AP-001">>, FramedIPAddress |-> framedIP,
     AcctSessionTime |-> sessionTime, AcctTerminateCause |-> cause,
     AcctInputOctets |-> <<4096>>, AcctOutputOctets |-> <<8192>>]

\* The attribute lookups of layeh.com/radius: an absent string is "", an
\* absent integer 0, an absent address the nil net.IP.
GetString(attr) == IF attr = <<>> THEN "" ELSE attr[1]
GetInt(attr) == IF attr = <<>> THEN 0 ELSE attr[1]

\* net.IP.String(): the nil address prints as "<nil>".
IPString(attr) == IF attr = <<>> THEN "<nil>" ELSE attr[1]

\* time.Now().UTC().Format(time.RFC3339Nano) on the logical clock.
RFC3339Nano(now) == ToString(now)

\* The result of ParseRADIUSPacket: the event (<<>> is nil), the error (<<>>
\* is nil) and the attributes that were looked up.
ParseResult(event, err, reads) == [event |-> event, err |-> err, reads |-> reads]

BaseAttrs ==
    {"AcctStatusType", "UserName", "NASIPAddress", "NASPort", "AcctSessionID",
     "CallingStationID", "CalledStationID"}

\* Mutant of ParseRADIUSPacket: a status type that is none of the three makes
\* an Interim record.
ParseRADIUSPacketDefaultInterim(packet, clientIP, now) ==
    IF packet = <<>>
    THEN ParseResult(<<>>, <<"packet cannot be nil">>, {})
    ELSE LET p == packet[1]
             statusType == GetInt(p.AcctStatusType)
             base == BaseAccountingRecord(GetString(p.UserName),
                         IPString(p.NASIPAddress), GetString(p.AcctSessionID),
                         clientIP, RFC3339Nano(now))
         IN CASE statusType = 1 ->
                    ParseResult(<<StartRecord(base, IPString(p.FramedIPAddress))>>,
                                <<>>, BaseAttrs \cup {"FramedIPAddress"})
              [] statusType = 2 ->
                    ParseResult(
                        <<StopRecord(base, GetInt(p.AcctSessionTime),
                                     ToString(GetInt(p.AcctTerminateCause)),
                                     GetInt(p.AcctInputOctets),
                                     GetInt(p.AcctOutputOctets))>>,
                        <<>>,
                        BaseAttrs \cup {"AcctSessionTime", "AcctTerminateCause",
                                        "AcctInputOctets", "AcctOutputOctets"})
              [] OTHER ->
                    ParseResult(
                        <<InterimRecord(base, GetInt(p.AcctSessionTime),
                                        GetInt(p.AcctInputOctets),
                                        GetInt(p.AcctOutputOctets))>>,
                        <<>>,
                        BaseAttrs \cup {"AcctSessionTime", "AcctInputOctets",
                                        "AcctOutputOctets"})

\* ParseRADIUSPacket(packet, clientIP) at time now.
ParseRADIUSPacket(packet, clientIP, now) ==
    IF packet = <<>>
    THEN ParseResult(<<>>, <<"packet cannot be nil">>, {})
    ELSE LET p == packet[1]
             statusType == GetInt(p.AcctStatusType)
             base == BaseAccountingRecord(GetString(p.UserName),
                         IPString(p.NASIPAddress), GetString(p.AcctSessionID),
                         clientIP, RFC3339Nano(now))
         IN CASE statusType = 1 ->
                    ParseResult(<<StartRecord(base, IPString(p.FramedIPAddress))>>,
                                <<>>, BaseAttrs \cup {"FramedIPAddress"})
              [] statusType = 2 ->
                    ParseResult(
                        <<StopRecord(base, GetInt(p.AcctSessionTime),
                                     ToString(GetInt(p.AcctTerminateCause)),
                                     GetInt(p.AcctInputOctets),
                                     GetInt(p.AcctOutputOctets))>>,
                        <<>>,
                        BaseAttrs \cup {"AcctSessionTime", "AcctTerminateCause",
                                        "AcctInputOctets", "AcctOutputOctets"})
              [] statusType = 3 ->
                    ParseResult(
                        <<InterimRecord(base, GetInt(p.AcctSessionTime),
                                        GetInt(p.AcctInputOctets),
                                        GetInt(p.AcctOutputOctets))>>,
                        <<>>,
                        BaseAttrs \cup {"AcctSessionTime", "AcctInputOctets",
                                        "AcctOutputOctets"})
              [] OTHER ->
                    ParseResult(<<>>,
                                <<"unsupported accounting status type: ",
                                  ToString(statusType)>>,
                                BaseAttrs)

-----------------------------------------------------------------------------
(* RedisStorage *)

ErrStore == "failed to store record in Redis"

\* json.Marshal of an event: the fields of the embedded base and those of the
\* variant, side by side under their json names.
MarshalBase(b) ==
    [username |-> b.Username, nas_ip_address |-> b.NASIPAddress,
     nas_port |-> b.NASPort, acct_session_id |-> b.AcctSessionID,
     calling_station_id |-> b.CallingStationID,
     called_station_id |-> b.CalledStationID, client_ip |-> b.ClientIP,
     timestamp |-> b.Timestamp]

\* Two JSON objects in one.
Merge(f, g) ==
    [n \in DOMAIN f \cup DOMAIN g |-> IF n \in DOMAIN g THEN g[n] ELSE f[n]]

\* Mutant of Marshal: only the embedded base is written.
MarshalBaseOnly(r) == MarshalBase(r.Base)

Marshal(r) ==
    CASE r.Type = "Start" ->
            Merge(MarshalBase(r.Base), [framed_ip_address |-> r.FramedIPAddress])
      [] r.Type = "Stop" ->
            Merge(MarshalBase(r.Base),
                  [session_time |-> r.SessionTime,
                   terminate_cause |-> r.TerminateCause,
                   input_octets |-> r.InputOctets,
                   output_octets |-> r.OutputOctets])
      [] r.Type = "Interim" ->
            Merge(MarshalBase(r.Base),
                  [session_time |-> r.SessionTime,
                   input_octets |-> r.InputOctets,
                   output_octets |-> r.OutputOctets])

\* json.Unmarshal into a struct: a name the object lacks leaves the zero value.
JSONField(data, name, zero) == IF name \in DOMAIN data THEN data[name] ELSE zero

UnmarshalBase(data) ==
    [Username |-> JSONField(data, "username", ""),
     NASIPAddress |-> JSONField(data, "nas_ip_address", ""),
     NASPort |-> JSONField(data, "nas_port", 0),
     AcctSessionID |-> JSONField(data, "acct_session_id", ""),
     CallingStationID |-> JSONField(data, "calling_station_id", ""),
     CalledStationID |-> JSONField(data, "called_station_id", ""),
     ClientIP |-> JSONField(data, "client_ip", ""),
     Timestamp |-> JSONField(data, "timestamp", "")]

\* json.Unmarshal(val, &got) with got a StartRecord, StopRecord or
\* InterimRecord.
Unmarshal(type, data) ==
    CASE type = "Start" ->
            StartRecord(UnmarshalBase(data),
                        JSONField(data, "framed_ip_address", ""))
      [] type = "Stop" ->
            StopRecord(UnmarshalBase(data), JSONField(data, "session_time", 0),
                       JSONField(data, "terminate_cause", ""),
                       JSONField(data, "input_octets", 0),
                       JSONField(data, "output_octets", 0))
      [] type = "Interim" ->
            InterimRecord(UnmarshalBase(data),
                          JSONField(data, "session_time", 0),
                          JSONField(data, "input_octets", 0),
                          JSONField(data, "output_octets", 0))

\* The key as Redis sees it: the text its parts make together.
RECURSIVE KeyText(_)
KeyText(key) == IF key = <<>> THEN "" ELSE Head(key) \o KeyText(Tail(key))

\* The database after SET key data with the expiry (0 is none): an entry
\* under the same text is replaced.
RedisSet(d, key, data, expiry) ==
    [k \in {k2 \in DOMAIN d : KeyText(k2) # KeyText(key)} \cup {key} |->
        IF k = key THEN [value |-> data, ttl |-> expiry] ELSE d[k]]

\* GET key: the value (<<>> when there is none).
RedisGet(d, key) ==
    LET found == {k \in DOMAIN d : KeyText(k) = KeyText(key)}
    IN IF found = {} THEN <<>> ELSE <<d[CHOOSE k \in found : TRUE].value>>

\* The database after key has expired.
RedisExpire(d, key) == [k \in DOMAIN d \ {key} |-> d[k]]

\* The error of rs.client.Set: the client is closed, or the server is not
\* reached.
SetErr(fault) == IF storeClient = "closed" \/ fault THEN ErrStore ELSE ""

\* Mutant of Store: the entry is written with no expiry.
StoreNoExpiry(record, fault) ==
    IF SetErr(fault) # "" THEN db
    ELSE RedisSet(db, GenerateRedisKey(record), Marshal(record), 0)

\* Store(ctx, record): the database after it.
Store(record, fault) ==
    IF SetErr(fault) # "" THEN db
    ELSE RedisSet(db, GenerateRedisKey(record), Marshal(record), ttl)

\* Mutant of StorageCloseErr: Close returns nil every time.
StorageCloseErrNone == ""

\* The error of rs.client.Close().
StorageCloseErr == IF storeClient = "closed" THEN ErrClosed ELSE ""

\* (rs *RedisStorage) Close
StorageClose ==
    /\ closeResults' = Append(closeResults, StorageCloseErr)
    /\ storeClient' = "closed"
    /\ UNCHANGED <<db, ttl>>

-----------------------------------------------------------------------------
(* The request handler of cmd/radius-controlplane *)

\* getClientIP(r): the address the request came from.
ClientAddr == "192.168.1.100"

\* What the handler knows of a request when it takes it up.
NewRequest(req) ==
    [req |-> req, parsed |-> FALSE, record |-> <<>>, parseErr |-> <<>>,
     validated |-> FALSE, validateErr |-> <<>>, storeCalls |-> 0,
     storeErr |-> "", responses |-> 0, writeErr |-> FALSE]

\* The handler is called with r; a request that is not an accounting request
\* is only reported.
HRecv(req) ==
    /\ hPc = "idle"
    /\ hCur' = NewRequest(req)
    /\ hPc' = IF req.Code = "Accounting-Request" THEN "parse" ELSE "respond"
    /\ UNCHANGED <<handled, storageVars>>

\* The packet is parsed; the clock of time.Now() is the count of requests.
HParse ==
    /\ hPc = "parse"
    /\ LET res == ParseRADIUSPacket(<<hCur.req.Packet>>, ClientAddr,
                                    Len(handled) + 1)
       IN /\ hCur' = [hCur EXCEPT !.parsed = TRUE, !.record = res.event,
                                  !.parseErr = res.err]
          /\ hPc' = IF res.err # <<>> THEN "respond" ELSE "validate"
    /\ UNCHANGED <<handled, storageVars>>

\* Mutant of HValidate: the handler returns when the record is invalid.
HValidateReturnsOnError ==
    /\ hPc = "validate"
    /\ LET err == Validate(hCur.record[1])
           cur == [hCur EXCEPT !.validated = TRUE, !.validateErr = err]
       IN IF err # <<>>
          THEN /\ handled' = Append(handled, cur)
               /\ hCur' = <<>>
               /\ hPc' = "idle"
          ELSE /\ hCur' = cur
               /\ hPc' = "store"
               /\ UNCHANGED handled
    /\ UNCHANGED storageVars

\* record.Validate()
HValidate ==
    /\ hPc = "validate"
    /\ LET err == Validate(hCur.record[1])
       IN /\ hCur' = [hCur EXCEPT !.validated = TRUE, !.validateErr = err]
          /\ hPc' = IF err # <<>> THEN "respond" ELSE "store"
    /\ UNCHANGED <<handled, storageVars>>

\* Mutant of HStore: a write that failed is tried once more.
HStoreRetries ==
    /\ hPc = "store"
    /\ \E fault \in BOOLEAN, again \in BOOLEAN :
          /\ db' = IF SetErr(fault) # "" THEN Store(hCur.record[1], again)
                   ELSE Store(hCur.record[1], fault)
          /\ hCur' = [hCur EXCEPT
                        !.storeCalls = IF SetErr(fault) # "" THEN @ + 2 ELSE @ + 1,
                        !.storeErr = IF SetErr(fault) # "" THEN SetErr(again)
                                     ELSE ""]
    /\ hPc' = "respond"
    /\ UNCHANGED <<handled, storeClient, closeResults, ttl>>

\* store.Store(context.Background(), record)
HStore ==
    /\ hPc = "store"
    /\ \E fault \in BOOLEAN :
          /\ db' = Store(hCur.record[1], fault)
          /\ hCur' = [hCur EXCEPT !.storeCalls = @ + 1,
                                  !.storeErr = SetErr(fault)]
    /\ hPc' = "respond"
    /\ UNCHANGED <<handled, storeClient, closeResults, ttl>>

\* w.Write(r.Response(radius.CodeAccountingResponse)), which can fail; the
\* handler returns.
HRespond ==
    /\ hPc = "respond"
    /\ \E fault \in BOOLEAN :
          handled' = Append(handled, [hCur EXCEPT !.responses = @ + 1,
                                                  !.writeErr = fault])
    /\ hCur' = <<>>
    /\ hPc' = "idle"
    /\ UNCHANGED storageVars

-----------------------------------------------------------------------------
(* The startup of the two programs *)

\* The step is run: with ENV=prod the logger does not load the .env file.
StepRuns(proc, step) ==
    ~(proc = "logger" /\ step = "dotenv" /\ env.ENV = <<"prod">>)

\* The step's call returns no error; fault says that the file, the store or
\* the socket the step needs is out of reach.
StepOk(proc, step, fault) ==
    CASE step = "config" -> LoadFromEnv(env).err = <<>>
      [] step = "validate" -> ConfigValidate(LoadFromEnv(env).cfg[1]) = <<>>
      [] step = "subscribe" -> Len(<<PatAcct>>) # 0
      [] OTHER -> ~fault

\* Mutant of Fatal: a failed health check is only reported.
FatalExceptHealth(proc, step) ==
    ~(proc = "server" /\ step = "dotenv") /\ step # "health"

\* An error of the step ends the process (log.Fatalf); the server only warns
\* when the .env file cannot be loaded.
Fatal(proc, step) == ~(proc = "server" /\ step = "dotenv")

\* main of proc runs its next step; past the last one it serves.
MainStep(proc) ==
    /\ boot[proc].state = "starting"
    /\ \E fault \in BOOLEAN :
          LET p == boot[proc]
              steps == MainSteps(proc)
              step == steps[p.at]
              ok == ~StepRuns(proc, step) \/ StepOk(proc, step, fault)
              done == [p EXCEPT !.results = Append(@, [step |-> step, ok |-> ok])]
          IN boot' = [boot EXCEPT ![proc] =
                        IF ~ok /\ Fatal(proc, step)
                        THEN [done EXCEPT !.state = "exited"]
                        ELSE [done EXCEPT
                                !.at = @ + 1,
                                !.state = IF p.at = Len(steps) THEN "serving"
                                          ELSE "starting"]]

-----------------------------------------------------------------------------
(* A RedisNotifier on which Subscribe is called more than once *)

\* What one call of Subscribe makes: its PubSub (its patterns, and the raw
\* messages it has for its reader), its goroutine and its eventChan.
NewSub(ps) ==
    [patterns |-> Range(KeyspacePatterns(ps)), raw |-> <<>>, pc |-> "select",
     held |-> <<>>, stream |-> <<>>, took |-> <<>>]

\* Subscribe(ctx, ps) with patterns: rn.pubsub is assigned the new PubSub.
MultiSubscribe(ps) ==
    multi' = [multi EXCEPT !.pubsub = Len(multi.subs) + 1,
                           !.subs = Append(@, NewSub(ps))]

\* The store publishes msg: every PubSub with a matching pattern gets it.
MultiPublish(msg) ==
    /\ multi.subs # <<>>
    /\ multi' = [multi EXCEPT
                   !.published = @ + 1,
                   !.subs = [k \in 1..Len(@) |->
                               IF \E p \in @[k].patterns : GlobMatch(p, msg.Channel)
                               THEN [@[k] EXCEPT !.raw = Append(@, msg)]
                               ELSE @[k]]]

\* case msg, ok := <-rn.pubsub.Channel() in the goroutine of the k-th call:
\* rn.pubsub is read again at each turn of the loop, with no synchronisation
\* with the Subscribe that assigns it, so the read gives the PubSub of the
\* goroutine's own call or one assigned since.
MultiRecv(k) ==
    /\ multi.subs[k].pc = "select"
    /\ \E j \in k..multi.pubsub :
          /\ multi.subs[j].raw # <<>>
          /\ LET msg == Head(multi.subs[j].raw)
                 event == parseMessage(msg, Len(multi.subs[k].took) + 1)
                 read == [multi.subs EXCEPT ![j].raw = Tail(@)]
             IN multi' = [multi EXCEPT !.subs =
                            [read EXCEPT
                               ![k].took = Append(@, [from |-> j, msg |-> msg]),
                               ![k].held = event,
                               ![k].pc = IF event # <<>> THEN "send"
                                         ELSE "select"]]

\* case eventChan <- *event in the goroutine of the k-th call.
MultiSend(k) ==
    /\ multi.subs[k].pc = "send"
    /\ Len(multi.subs[k].stream) < QueueCapacity
    /\ multi' = [multi EXCEPT !.subs[k].stream = Append(@, multi.subs[k].held[1]),
                              !.subs[k].held = <<>>,
                              !.subs[k].pc = "select"]

-----------------------------------------------------------------------------
(* Specifications *)

\* What the notifier, its goroutine and a bare consumer leave alone.
loggerSide == <<loggerVars, deferred, parseVars, serverVars, startupVars>>

\* A caller that subscribes with patterns once, and otherwise calls anything
\* at any time.
CallSubscribe ==
    \E ps \in SubscribeArgs :
        /\ Len(ps) > 0 => pubsub = <<>>
        /\ Subscribe(ps)

CallUnsubscribe == \E ps \in UnsubscribeArgs : Unsubscribe(ps)

CallClose == Close

Source == Len(taken) < MaxMsgs /\ \E msg \in Messages : FwdRecv(msg)

Forwarder == FwdSourceClosed \/ FwdSend \/ FwdCtxDone

Consumer == ConsumerRecv \/ ConsumerChanClosed \/ ConsumerCtxDone

Next ==
    \/ CallSubscribe /\ UNCHANGED loggerSide
    \/ CallUnsubscribe /\ UNCHANGED loggerSide
    \/ CallClose /\ UNCHANGED loggerSide
    \/ Cancel /\ UNCHANGED loggerSide
    \/ Source /\ UNCHANGED loggerSide
    \/ Forwarder /\ UNCHANGED loggerSide
    \/ Consumer /\ UNCHANGED loggerSide

Spec == Init /\ [][Next]_vars

\* One subscription to the accounting keys under a long burst of
\* notifications: the queue fills when the consumer is slow.
FloodSubscribe == pubsub = <<>> /\ Subscribe(<<PatAcct>>)

\* The deferred Close of main: once.
FloodClose == client = "open" /\ Close

FloodSource == Len(taken) < MaxFlood /\ FwdRecv(FloodMsg(Len(taken) + 1))

FloodNext ==
    \/ FloodSubscribe /\ UNCHANGED loggerSide
    \/ FloodClose /\ UNCHANGED loggerSide
    \/ Cancel /\ UNCHANGED loggerSide
    \/ FloodSource /\ UNCHANGED loggerSide
    \/ Forwarder /\ UNCHANGED loggerSide
    \/ Consumer /\ UNCHANGED loggerSide

FloodSpec == Init /\ [][FloodNext]_vars

\* Go's select chooses among its ready cases at random, so a case that stays
\* ready is taken: the goroutine's ctx.Done(), closed-source and send cases
\* are weakly fair.  Nothing is assumed of the source, the consumer or the
\* callers.
FloodLiveSpec ==
    /\ FloodSpec
    /\ WF_vars(FwdCtxDone /\ UNCHANGED loggerSide)
    /\ WF_vars(FwdSourceClosed /\ UNCHANGED loggerSide)
    /\ WF_vars(FwdSend /\ UNCHANGED loggerSide)

\* FloodLiveSpec with a consumer that keeps draining: its receive cases are
\* taken when they stay ready.
DrainLiveSpec ==
    /\ FloodLiveSpec
    /\ WF_vars(ConsumerRecv /\ UNCHANGED loggerSide)
    /\ WF_vars(ConsumerChanClosed /\ UNCHANGED loggerSide)

\* The goroutines of LoggerSpec each log their own text; one logs the empty
\* message.
LogText(g) == IF g = "g3" THEN <<>> ELSE <<"message from ", g>>

LoggerLog ==
    /\ Len(calls) < MaxLogCalls
    /\ \E g \in LogCallers : LogStart(g, LogText(g))
    /\ UNCHANGED <<subscriptionVars, deferred, parseVars, serverVars, startupVars>>

LoggerClose ==
    /\ Len(calls) < MaxLogCalls
    /\ \E g \in LogCallers : CloseStart(g)
    /\ UNCHANGED <<subscriptionVars, deferred, parseVars, serverVars, startupVars>>

LoggerLock ==
    /\ \E g \in LogCallers : Lock(g)
    /\ UNCHANGED <<subscriptionVars, deferred, parseVars, serverVars, startupVars>>

LoggerLogBody ==
    /\ \E g \in LogCallers : LogBody(g)
    /\ UNCHANGED <<subscriptionVars, deferred, parseVars, serverVars, startupVars>>

LoggerLogSync ==
    /\ \E g \in LogCallers : LogSync(g)
    /\ UNCHANGED <<subscriptionVars, deferred, parseVars, serverVars, startupVars>>

LoggerCloseBody ==
    /\ \E g \in LogCallers : CloseBody(g)
    /\ UNCHANGED <<subscriptionVars, deferred, parseVars, serverVars, startupVars>>

\* One FileLogger shared by goroutines that call Log and Close in any order
\* and at any time, on a file whose writes, flushes and close can fail.
LoggerNext ==
    \/ LoggerLog
    \/ LoggerClose
    \/ LoggerLock
    \/ LoggerLogBody
    \/ LoggerLogSync
    \/ LoggerCloseBody

LoggerSpec == Init /\ [][LoggerNext]_vars

\* redis.Subscribe(ctx, []string{"radius:acct:*"}) of main.
MainSubscribe ==
    /\ pubsub = <<>>
    /\ client = "open"
    /\ Subscribe(<<PatAcct>>)
    /\ UNCHANGED loggerSide

\* The signal goroutine of main: cancel() on SIGINT or SIGTERM.
MainSignal == Cancel /\ UNCHANGED loggerSide

MainSource ==
    /\ Len(taken) < MaxMainMsgs
    /\ \E msg \in Messages : FwdRecv(msg)
    /\ UNCHANGED loggerSide

MainForwarder == Forwarder /\ UNCHANGED loggerSide

\* The loop takes the next case of its select when Log has returned.
MainLoopRecv ==
    MainConsumerRecv /\ UNCHANGED <<deferred, parseVars, serverVars, startupVars>>

MainLoopEnd ==
    /\ logPc[MainCaller] = "idle"
    /\ ConsumerChanClosed \/ ConsumerCtxDone
    /\ UNCHANGED loggerSide

\* Log and Close of the FileLogger, called by main alone.
MainLogger ==
    /\ \/ Lock(MainCaller)
       \/ LogBody(MainCaller)
       \/ LogSync(MainCaller)
       \/ CloseBody(MainCaller)
    /\ UNCHANGED <<subscriptionVars, deferred, parseVars, serverVars, startupVars>>

MainShutdown == MainDefer /\ UNCHANGED <<parseVars, serverVars, startupVars>>

\* The logger program: one subscription to the accounting keys, the consumer
\* loop that logs each event, a signal at any time, and the deferred calls.
MainNext ==
    \/ MainSubscribe
    \/ MainSignal
    \/ MainSource
    \/ MainForwarder
    \/ MainLoopRecv
    \/ MainLoopEnd
    \/ MainLogger
    \/ MainShutdown

MainSpec == Init /\ [][MainNext]_vars

\* The channel names and payloads handed to parseMessage on its own: all
\* sequences of the tokens of a keyspace channel, up to MaxChanLen of them.
ChanTokens == {"__keyspace@0__", ":", "__keyspace@1__", "radius:acct:", "user"}
Payloads == {<<>>, <<"set">>, <<"expire">>, <<"del">>}

SeqsUpTo(S, n) == UNION {[1..k -> S] : k \in 0..n}

ParseInputs ==
    {Msg(channel, payload) : channel \in SeqsUpTo(ChanTokens, MaxChanLen),
                             payload \in Payloads}

ParseInit ==
    /\ NewRedisNotifier
    /\ NewFileLogger
    /\ deferred = 0
    /\ parseIn \in ParseInputs
    /\ parseOut = [done |-> FALSE, event |-> <<>>]
    /\ ModelsIdle
    /\ NewRedisStorage(LoadFromEnv(ValidEnv).cfg[1])
    /\ HandlerIdle
    /\ Started
    /\ MultiIdle

\* rn.parseMessage(msg)
ParseApply ==
    /\ ~parseOut.done
    /\ parseOut' = [done |-> TRUE,
                    event |-> parseMessage(parseIn, Len(taken) + 1)]
    /\ UNCHANGED <<parseIn, subscriptionVars, loggerVars, deferred, serverVars,
                   startupVars>>

ParseSpec == ParseInit /\ [][ParseApply]_vars

\* What the accounting server leaves alone.
loggerProgram ==
    <<subscriptionVars, loggerVars, deferred, parseVars, startupVars>>

\* The logger program before anything runs in it.
LoggerProgramIdle ==
    /\ NewRedisNotifier
    /\ NewFileLogger
    /\ deferred = 0
    /\ parseIn = Msg(<<>>, <<>>)
    /\ parseOut = [done |-> FALSE, event |-> <<>>]
    /\ Started
    /\ MultiIdle

\* The packets handed to ParseRADIUSPacket on its own: each attribute that
\* matters absent or present, every status type up to MaxStatusType; and the
\* nil packet.
StatusTypes == {<<>>} \cup {<<n>> : n \in 0..MaxStatusType}

Packets ==
    {Packet(st, u, nas, sid, fip, stime, tc) :
        st \in StatusTypes, u \in {<<>>, <<"testuser">>},
        nas \in {<<>>, <<"192.168.1.1">>}, sid \in {<<>>, <<"session123">>},
        fip \in {<<>>, <<"10.0.0.5">>}, stime \in {<<>>, <<60>>},
        tc \in {<<>>, <<1>>}}

PacketInit ==
    /\ LoggerProgramIdle
    /\ pktIn \in {<<>>} \cup {<<p>> : p \in Packets}
    /\ pktOut = NotParsed
    /\ rec = <<>>
    /\ recOut = NoResults
    /\ NewRedisStorage(LoadFromEnv(ValidEnv).cfg[1])
    /\ HandlerIdle

\* models.ParseRADIUSPacket(packet, clientIP)
PacketParse ==
    /\ ~pktOut.done
    /\ LET res == ParseRADIUSPacket(pktIn, ClientAddr, Len(handled) + 1)
       IN pktOut' = [done |-> TRUE, event |-> res.event, err |-> res.err,
                     reads |-> res.reads]
    /\ UNCHANGED <<pktIn, rec, recOut, storageVars, handlerVars, loggerProgram>>

PacketSpec == PacketInit /\ [][PacketParse]_vars

\* The events whose methods are called on their own: each required field
\* empty or not, the session times from -MaxSessionTime to MaxSessionTime.
Bases ==
    {BaseAccountingRecord(u, nas, sid, cip, "2025-10-04T15:00:00Z") :
        u \in {"", "testuser"}, nas \in {"", "192.168.1.1"},
        sid \in {"", "session123"}, cip \in {"", "192.168.1.100"}}

SessionTimes == (0 - MaxSessionTime)..MaxSessionTime

Records ==
    {StartRecord(b, fip) : b \in Bases, fip \in {"", "10.0.0.5"}}
    \cup {StopRecord(b, st, tc, 4096, 8192) :
            b \in Bases, st \in SessionTimes, tc \in {"", "1"}}
    \cup {InterimRecord(b, st, 4096, 8192) : b \in Bases, st \in SessionTimes}

\* The values of RECORD_TTL_HOURS the storage of RecordSpec is configured
\* with.
TTLHours == {<<"1">>, <<"2", "4">>}

RecordInit ==
    /\ LoggerProgramIdle
    /\ pktIn = <<>>
    /\ pktOut = NotParsed
    /\ rec \in {<<r>> : r \in Records}
    /\ recOut = NoResults
    /\ \E hours \in TTLHours :
          NewRedisStorage(LoadFromEnv([ValidEnv EXCEPT
                                         !.RECORD_TTL_HOURS = hours]).cfg[1])
    /\ HandlerIdle

\* record.Validate()
RecValidate ==
    /\ ~recOut.validated
    /\ recOut' = [recOut EXCEPT !.validated = TRUE, !.err = Validate(rec[1])]
    /\ UNCHANGED <<pktIn, pktOut, rec, storageVars, handlerVars, loggerProgram>>

\* record.GenerateRedisKey() and record.GetType()
RecKey ==
    /\ recOut.key = <<>>
    /\ recOut' = [recOut EXCEPT !.key = <<GenerateRedisKey(rec[1])>>,
                                !.type = GetType(rec[1])]
    /\ UNCHANGED <<pktIn, pktOut, rec, storageVars, handlerVars, loggerProgram>>

\* storage.Store(ctx, record), which fails when the server is not reached.
RecStore ==
    /\ ~recOut.stored
    /\ \E fault \in BOOLEAN :
          /\ db' = Store(rec[1], fault)
          /\ recOut' = [recOut EXCEPT !.stored = TRUE, !.storeErr = SetErr(fault)]
    /\ UNCHANGED <<pktIn, pktOut, rec, storeClient, closeResults, ttl,
                   handlerVars, loggerProgram>>

\* The TTL of a key runs out.
RecExpire ==
    /\ \E key \in DOMAIN db : db[key].ttl > 0 /\ db' = RedisExpire(db, key)
    /\ UNCHANGED <<modelsVars, storeClient, closeResults, ttl, handlerVars,
                   loggerProgram>>

\* mr.Get(record.GenerateRedisKey()) and json.Unmarshal into the variant of
\* the record; a key that is not there gives nothing.
RecLoad ==
    /\ recOut.stored
    /\ recOut.storeErr = ""
    /\ ~recOut.loaded
    /\ LET val == RedisGet(db, GenerateRedisKey(rec[1]))
       IN recOut' = [recOut EXCEPT
                       !.loaded = TRUE,
                       !.got = IF val # <<>>
                               THEN <<Unmarshal(rec[1].Type, val[1])>>
                               ELSE <<>>]
    /\ UNCHANGED <<pktIn, pktOut, rec, storageVars, handlerVars, loggerProgram>>

\* One event: validated, its key derived, stored and read back.
RecordNext ==
    \/ RecValidate
    \/ RecKey
    \/ RecStore
    \/ RecExpire
    \/ RecLoad

RecordSpec == RecordInit /\ [][RecordNext]_vars

\* The requests that come to the handler: for each status type a packet with
\* every attribute, and the same packet with one of the attributes its
\* variant reads missing; a packet with a status type the server does not
\* know, one with none; and a request that is not an accounting request.
CompletePacket(st) ==
    Packet(st, <<"testuser">>, <<"192.168.1.1">>, <<"session123">>,
           <<"10.0.0.5">>, <<60>>, <<1>>)

CheckedAttrs(statusType) ==
    {"UserName", "NASIPAddress", "AcctSessionID"}
    \cup CASE statusType = 1 -> {"FramedIPAddress"}
           [] statusType = 2 -> {"AcctSessionTime", "AcctTerminateCause"}
           [] statusType = 3 -> {"AcctSessionTime"}

RequestPackets ==
    {CompletePacket(st) : st \in {<<>>, <<1>>, <<2>>, <<3>>, <<7>>}}
    \cup UNION {{[CompletePacket(<<n>>) EXCEPT ![a] = <<>>] :
                    a \in CheckedAttrs(n)} : n \in 1..3}

Requests ==
    {[Code |-> "Accounting-Request", Packet |-> p] : p \in RequestPackets}
    \cup {[Code |-> "Access-Request", Packet |-> CompletePacket(<<1>>)]}

HandlerRecv ==
    /\ Len(handled) < MaxRequests
    /\ \E req \in Requests : HRecv(req)
    /\ UNCHANGED <<modelsVars, loggerProgram>>

HandlerParse == HParse /\ UNCHANGED <<modelsVars, loggerProgram>>

HandlerValidate == HValidate /\ UNCHANGED <<modelsVars, loggerProgram>>

HandlerStore == HStore /\ UNCHANGED <<modelsVars, loggerProgram>>

HandlerRespond == HRespond /\ UNCHANGED <<modelsVars, loggerProgram>>

\* store.Close() at any time, any number of times.
HandlerClose ==
    /\ Len(closeResults) < MaxStoreCloses
    /\ StorageClose
    /\ UNCHANGED <<modelsVars, handlerVars, loggerProgram>>

\* The accounting server: requests handled one after the other (a handler
\* shares nothing with another but the store), on a store that can fail and
\* can be closed.
HandlerNext ==
    \/ HandlerRecv
    \/ HandlerParse
    \/ HandlerValidate
    \/ HandlerStore
    \/ HandlerRespond
    \/ HandlerClose

HandlerSpec == Init /\ [][HandlerNext]_vars

\* FileLogger under a scheduler that lets a goroutine run when it can:
\* Lock returns when the mutex stays free (sync.Mutex hands it to a waiter),
\* and a goroutine that holds it goes on.
LoggerLiveSpec ==
    /\ LoggerSpec
    /\ WF_vars(LoggerLock)
    /\ WF_vars(LoggerLogBody)
    /\ WF_vars(LoggerLogSync)
    /\ WF_vars(LoggerCloseBody)

\* The environments LoadFromEnv is called in on its own: each variable not
\* set, well formed or malformed.
ConfigEnvs ==
    {Env(<<>>, secret, host, port, hours, level, logFile) :
        secret \in {<<>>, Secret, <<"a", "b", "c">>},
        host \in {<<>>, <<"localhost">>},
        port \in {<<>>, <<"1", "1", "1", "1">>, <<"i", "n", "v">>},
        hours \in {<<>>, <<"2", "4">>, <<"0">>, <<"-", "1">>, <<"x">>},
        level \in {<<>>, <<"info">>, <<"verbose">>},
        logFile \in {<<>>, <<"/var/log/test.log">>}}

NotStarted == [proc \in {"server", "logger"} |-> Starting]

ConfigInit ==
    /\ NewRedisNotifier
    /\ NewFileLogger
    /\ deferred = 0
    /\ parseIn = Msg(<<>>, <<>>)
    /\ parseOut = [done |-> FALSE, event |-> <<>>]
    /\ ModelsIdle
    /\ NewRedisStorage(LoadFromEnv(ValidEnv).cfg[1])
    /\ HandlerIdle
    /\ env \in ConfigEnvs
    /\ cfgOut = NotLoaded
    /\ boot = NotStarted
    /\ MultiIdle

\* What the configuration and the startup leave alone.
programs == <<subscriptionVars, loggerVars, deferred, parseVars, serverVars>>

\* config.LoadFromEnv()
ConfigLoad ==
    /\ ~cfgOut.loaded
    /\ LET res == LoadFromEnv(env)
       IN cfgOut' = [cfgOut EXCEPT !.loaded = TRUE, !.cfg = res.cfg,
                                   !.err = res.err]
    /\ UNCHANGED <<env, boot, multi, programs>>

\* cfg.Validate() and cfg.GetRedisAddr() on the loaded configuration.
ConfigCheck ==
    /\ cfgOut.loaded
    /\ cfgOut.cfg # <<>>
    /\ ~cfgOut.checked
    /\ cfgOut' = [cfgOut EXCEPT !.checked = TRUE,
                                !.validateErr = ConfigValidate(cfgOut.cfg[1]),
                                !.addr = <<GetRedisAddr(cfgOut.cfg[1])>>]
    /\ UNCHANGED <<env, boot, multi, programs>>

ConfigNext == ConfigLoad \/ ConfigCheck

ConfigSpec == ConfigInit /\ [][ConfigNext]_vars

\* The environments the two programs are started in: the valid one, in
\* production mode or not, and ones no program can run with.
BootEnvs ==
    {ValidEnv,
     [ValidEnv EXCEPT !.ENV = <<"prod">>],
     [ValidEnv EXCEPT !.REDIS_HOST = <<>>],
     [ValidEnv EXCEPT !.RADIUS_SHARED_SECRET = <<"a", "b", "c">>],
     [ValidEnv EXCEPT !.RECORD_TTL_HOURS = <<"0">>]}

BootInit ==
    /\ NewRedisNotifier
    /\ NewFileLogger
    /\ deferred = 0
    /\ parseIn = Msg(<<>>, <<>>)
    /\ parseOut = [done |-> FALSE, event |-> <<>>]
    /\ ModelsIdle
    /\ NewRedisStorage(LoadFromEnv(ValidEnv).cfg[1])
    /\ HandlerIdle
    /\ env \in BootEnvs
    /\ cfgOut = NotLoaded
    /\ boot = NotStarted
    /\ MultiIdle

BootServer == MainStep("server") /\ UNCHANGED <<env, cfgOut, multi, programs>>

BootLogger == MainStep("logger") /\ UNCHANGED <<env, cfgOut, multi, programs>>

\* The two programs from the start of main to their serving, with a store
\* and a log file that can be out of reach at each step.
BootNext == BootServer \/ BootLogger

BootSpec == BootInit /\ [][BootNext]_vars

\* A notifier on which Subscribe is called up to MaxSubscribes times, and a
\* source that publishes up to MaxPublished notifications.
MultiCall ==
    /\ Len(multi.subs) < MaxSubscribes
    /\ \E ps \in {<<PatAcct>>, <<PatTest>>} : MultiSubscribe(ps)
    /\ UNCHANGED <<env, cfgOut, boot, programs>>

MultiSource ==
    /\ multi.published < MaxPublished
    /\ \E msg \in {Msg(ChanAcct, <<"set">>), Msg(ChanTest, <<"set">>)} :
          MultiPublish(msg)
    /\ UNCHANGED <<env, cfgOut, boot, programs>>

MultiForwarderRecv ==
    /\ \E k \in 1..Len(multi.subs) : MultiRecv(k)
    /\ UNCHANGED <<env, cfgOut, boot, programs>>

MultiForwarderSend ==
    /\ \E k \in 1..Len(multi.subs) : MultiSend(k)
    /\ UNCHANGED <<env, cfgOut, boot, programs>>

MultiNext ==
    \/ MultiCall
    \/ MultiSource
    \/ MultiForwarderRecv
    \/ MultiForwarderSend

MultiSpec == Init /\ [][MultiNext]_vars

\* Events that differ in their user name, session identifier, timestamp or
\* variant, with the colons that user names and session identifiers carry.
KeyRecords ==
    {StartRecord(BaseAccountingRecord(u, "192.168.1.1", sid, ClientAddr, t),
                 "10.0.0.5") :
        u \in {"a", "a:b"}, sid \in {"c", "b:c"}, t \in {"t1", "t2"}}
    \cup {InterimRecord(BaseAccountingRecord(u, "192.168.1.1", sid, ClientAddr, t),
                        60, 4096, 8192) :
            u \in {"a", "a:b"}, sid \in {"c", "b:c"}, t \in {"t1", "t2"}}

KeyInit ==
    /\ LoggerProgramIdle
    /\ pktIn = <<>>
    /\ pktOut = NotParsed
    /\ rec \in {<<r1, r2>> : r1 \in KeyRecords, r2 \in KeyRecords}
    /\ rec[1] # rec[2]
    /\ recOut = NoResults
    /\ NewRedisStorage(LoadFromEnv(ValidEnv).cfg[1])
    /\ HandlerIdle

\* The events are stored one after the other; recOut.key has the keys they
\* were stored under.
KeyStore ==
    /\ Len(recOut.key) < Len(rec)
    /\ LET r == rec[Len(recOut.key) + 1]
       IN /\ db' = Store(r, FALSE)
          /\ recOut' = [recOut EXCEPT !.key = Append(@, GenerateRedisKey(r))]
    /\ UNCHANGED <<pktIn, pktOut, rec, storeClient, closeResults, ttl,
                   handlerVars, loggerProgram>>

KeySpec == KeyInit /\ [][KeyStore]_vars

-----------------------------------------------------------------------------
(* Properties *)

\* The events parseMessage yields for the first n of msgs, each at the time
\* its message was received.
RECURSIVE ParsedEvents(_, _)
ParsedEvents(msgs, n) ==
    IF n = 0 THEN <<>>
    ELSE ParsedEvents(msgs, n - 1) \o parseMessage(msgs[n], n)

\* A step that is a call of op on the notifier.
IsCall(op) == lastCall' # lastCall /\ lastCall'.op = op

\* C1: after a successful subscribe, cancelling the token leads to the
\* forwarding goroutine having returned and the output channel being closed,
\* wherever the goroutine is: at the outer select, or at the inner select
\* with the queue full and nobody receiving.
C1_CancelTerminatesForwarder ==
    (ctxDone /\ fwdPc # "none") ~> (fwdPc = "done" /\ chanClosed)

\* The goroutine was blocked on the full queue, the consumer gone, and the
\* cancellation ended it.
C1_Witness ==
    /\ ctxDone
    /\ fwdPc = "done"
    /\ chanClosed
    /\ Len(eventChan) = QueueCapacity
    /\ dropped # <<>>
    /\ consPc = "ctx_done"

\* C3: the events the consumer received are in the order in which the
\* goroutine received their raw messages: each is the parse of the message
\* received at its timestamp, and the timestamps increase.
C3_OrderPreserved ==
    /\ \A i \in 1..Len(delivered) :
           /\ delivered[i].Timestamp \in 1..Len(taken)
           /\ <<delivered[i]>> =
                  parseMessage(taken[delivered[i].Timestamp], delivered[i].Timestamp)
    /\ \A i \in 1..(Len(delivered) - 1) :
           delivered[i].Timestamp < delivered[i + 1].Timestamp

\* The consumer received events while the goroutine was blocked on the full
\* queue behind them.
C3_Witness ==
    /\ Len(delivered) >= 2
    /\ Len(eventChan) = QueueCapacity
    /\ fwdPc = "send"

\* C4: while the token is not cancelled, no parsed event is discarded: the
\* events parsed from the messages received are exactly those delivered,
\* those in the queue and the one the goroutine holds, in this order.
C4_NoEventDiscarded ==
    ~ctxDone =>
        ParsedEvents(taken, Len(taken)) = delivered \o eventChan \o fwdEvent

\* The goroutine holds an event at the full queue, with no cancellation.
C4_Witness ==
    /\ ~ctxDone
    /\ fwdPc = "send"
    /\ Len(eventChan) = QueueCapacity
    /\ delivered # <<>>

\* C5: at most 100 events are pushed and not yet taken.
C5_QueueBounded == Len(eventChan) <= 100

\* The queue is full and the goroutine holds one more event.
C5_Witness == Len(eventChan) = 100 /\ fwdPc = "send"

\* C2, as claimed: once the token is cancelled, no further event is delivered
\* to the consumer.
C2_NoDeliveryAfterCancel == [][ctxDone => delivered' = delivered]_vars

\* C2, amended: once the goroutine has observed the cancellation and closed
\* the channel, it stays closed and nothing more is pushed: the consumer
\* receives only events that were pending in the queue, in their order.
C2_ClosedStreamOnlyDrains ==
    [][chanClosed =>
          /\ chanClosed'
          /\ Len(eventChan') <= Len(eventChan)
          /\ delivered' \o eventChan' = delivered \o eventChan]_vars

\* After the cancellation the channel is closed with events still pending
\* and the consumer still in its loop.
C2_Witness ==
    /\ ctxDone
    /\ chanClosed
    /\ fwdPc = "done"
    /\ eventChan # <<>>
    /\ delivered # <<>>
    /\ consPc = "loop"

\* C6: Subscribe with an empty (or nil) pattern list returns the
\* no-patterns error and no channel, starts no goroutine and changes nothing
\* of the notifier, so that it is as unsubscribed as before.
C6_EmptySubscribeFails ==
    [][(IsCall("Subscribe") /\ lastCall'.patterns = <<>>) =>
          /\ lastCall'.err = ErrNoPatterns
          /\ ~lastCall'.stream
          /\ UNCHANGED <<notifierVars, forwarderVars, consumerVars>>]_vars

\* Subscribe with no pattern has failed on a notifier never subscribed.
C6_Witness ==
    /\ lastCall = Call("Subscribe", <<>>, ErrNoPatterns, FALSE)
    /\ pubsub = <<>>
    /\ fwdPc = "none"

\* C7: Unsubscribe on a notifier on which no Subscribe has succeeded (no
\* goroutine was ever started) fails with the not-subscribed error, for any
\* pattern list, and changes nothing.
C7_UnsubscribeBeforeSubscribe ==
    [][(IsCall("Unsubscribe") /\ fwdPc = "none") =>
          /\ lastCall'.err = ErrNotSubscribed
          /\ UNCHANGED <<notifierVars, ctxDone, forwarderVars, consumerVars>>]_vars

\* Unsubscribe of a pattern has failed on a notifier never subscribed.
C7_Witness ==
    /\ lastCall = Call("Unsubscribe", <<PatAcct>>, ErrNotSubscribed, FALSE)
    /\ fwdPc = "none"

\* C8, as claimed: the channel is closed only when the token is cancelled.
C8_ClosedOnlyByCancel == chanClosed => ctxDone

\* C8, amended: the channel is closed only when the token is cancelled or the
\* raw source has ended (the notifier was closed).
C8_ClosedOnlyByCancelOrSourceEnd == chanClosed => (ctxDone \/ RawEnded)

\* The channel was closed by the end of the source, with no cancellation,
\* after the goroutine had received messages that parse to nothing.
C8_Witness ==
    /\ chanClosed
    /\ ~ctxDone
    /\ RawEnded
    /\ \E i \in 1..Len(taken) : parseMessage(taken[i], i) = <<>>

\* C9: after a successful Subscribe, an Unsubscribe of any patterns never
\* fails with the not-subscribed error, leaves the PubSub in place, and
\* touches neither the goroutine nor the channel; with no pattern left, no
\* cancellation and no Close, the goroutine keeps running.
C9_StaysSubscribed ==
    /\ [][(IsCall("Unsubscribe") /\ fwdPc # "none") =>
             /\ lastCall'.err # ErrNotSubscribed
             /\ pubsub' # <<>>
             /\ UNCHANGED <<forwarderVars, consumerVars>>]_vars
    /\ []((fwdPc # "none" /\ ~ctxDone /\ ~RawEnded) =>
             (fwdPc \in {"select", "send"} /\ ~chanClosed))

\* All patterns were unsubscribed, and the goroutine has since received a
\* message and waits again, the channel open.
C9_Witness ==
    /\ lastCall.op = "Unsubscribe"
    /\ lastCall.err = ""
    /\ pubsub # <<>>
    /\ pubsub[1].patterns = {}
    /\ taken # <<>>
    /\ fwdPc = "select"
    /\ ~chanClosed

\* C10, as claimed: on a subscribed notifier, Unsubscribe with an empty
\* pattern list returns no error and leaves the subscribed patterns as they
\* were.
C10_EmptyUnsubscribeIsNoOp ==
    [][(IsCall("Unsubscribe") /\ lastCall'.patterns = <<>>
          /\ pubsub # <<>> /\ ~RawEnded) =>
          /\ lastCall'.err = ""
          /\ pubsub'[1].patterns = pubsub[1].patterns]_vars
\* C11: the first Close of a notifier, subscribed or not, returns no error,
\* and every Close after it returns an error; the notifier is closed after
\* each of them.
C11_FirstCloseSucceedsLaterFail ==
    [][IsCall("Close") =>
          /\ client = "open" => lastCall'.err = ""
          /\ client = "closed" => lastCall'.err # ""
          /\ client' = "closed"
          /\ pubsub # <<>> => pubsub'[1].closed]_vars

\* A second Close, on a notifier that was subscribed, has returned its error
\* (and so has a first one, before it).
C11_Witness ==
    /\ lastCall.op = "Close"
    /\ lastCall.err = ErrClosed
    /\ pubsub # <<>>
    /\ fwdPc = "done"

\* C12: when the source has ended and the context is not cancelled, the
\* goroutine does not read again: it closes eventChan and returns, and a
\* consumer that keeps receiving comes to the closed, drained channel (or to
\* a cancellation that happens meanwhile).
C12_SourceEndReachesConsumer ==
    (RawEnded /\ fwdPc \in {"select", "send"} /\ ~ctxDone)
        ~> (fwdPc = "done" /\ chanClosed /\ (consPc = "chan_closed" \/ ctxDone))

\* The source ended with no cancellation while the goroutine had filled the
\* queue, and the consumer has drained it to its end.
C12_Witness ==
    /\ RawEnded
    /\ ~ctxDone
    /\ fwdPc = "done"
    /\ consPc = "chan_closed"
    /\ Len(delivered) > QueueCapacity

\* What the notification of a raw message is to be: nothing unless the
\* channel name begins with the two tokens of the namespace prefix, else the
\* rest of the channel name as the key and the payload as the operation.
RefParse(msg) ==
    LET ch == msg.Channel
    IN IF Len(ch) >= 2 /\ ch[1] = "__keyspace@0__" /\ ch[2] = ":"
       THEN <<[Key |-> [i \in 1..(Len(ch) - 2) |-> ch[i + 2]],
               Operation |-> msg.Payload]>>
       ELSE <<>>

\* C13: for every channel name and payload, parseMessage yields no event
\* when the channel name lacks the prefix, and otherwise the event whose key
\* is the channel name without the prefix and whose operation is the payload,
\* empty or not.
C13_ParseAgreesWithReference ==
    parseOut.done =>
        LET ref == RefParse(parseIn)
            event == parseOut.event
        IN /\ (event = <<>>) = (ref = <<>>)
           /\ event # <<>> =>
                 /\ event[1].Key = ref[1].Key
                 /\ event[1].Operation = ref[1].Operation
                 /\ event[1].Operation = parseIn.Payload

\* A channel with the prefix and an empty payload was parsed into an event
\* with a key of one token and an empty operation.
C13_Witness ==
    /\ parseOut.done
    /\ parseOut.event # <<>>
    /\ Len(parseOut.event[1].Key) = 1
    /\ parseOut.event[1].Operation = <<>>

\* The calls of Log and of Close made so far, and those that have returned.
LogCalls == {i \in 1..Len(calls) : calls[i].op = "Log"}
CloseCalls == {i \in 1..Len(calls) : calls[i].op = "Close"}
Returned(i) == calls[i].err # "pending"

\* The places in the file of the lines that call i wrote.
LinesOf(i) == {j \in 1..Len(file.data) : file.data[j].call = i}

\* C14: a call of Log made after a call of Close has returned fails with
\* "logger is closed" and appends nothing to the file, whatever other calls
\* of Log and Close run beside it.
C14_LogAfterCloseFails ==
    \A i \in LogCalls :
        calls[i].afterClose =>
            /\ Returned(i) => calls[i].err = ErrLoggerClosed
            /\ LinesOf(i) = {}

\* After lines were logged and Close returned, a later call of Log has
\* returned.
C14_Witness ==
    /\ file.data # <<>>
    /\ \E i \in LogCalls : calls[i].afterClose /\ Returned(i)

\* C15: a call of Close that returns when a call of Close has returned
\* before it returns no error, leaves the logger closed and does not touch
\* the file: the handle is closed once.
C15_CloseIdempotent ==
    [][/\ \A i \in CloseCalls :
             (CloseReturned /\ ~Returned(i) /\ calls'[i].err # "pending") =>
                 /\ calls'[i].err = ""
                 /\ flClosed /\ flClosed'
                 /\ file' = file
       /\ file'.closes <= 1]_vars

\* Three calls of Close have returned, the handle was closed once.
C15_Witness ==
    /\ Cardinality({i \in CloseCalls : Returned(i)}) >= 3
    /\ file.closes = 1
    /\ flClosed

\* No call of Log or Close has failed on the file itself.
NoIOFailure ==
    \A i \in 1..Len(calls) : calls[i].err \notin {ErrWrite, ErrIO, ErrFileClosed}

\* C16: with Log called from several goroutines at once on a logger that
\* nobody closes and a file that does not fail, every call that returns
\* returns no error; and the file holds one line for each call that wrote,
\* never two, each of them whole: a timestamp, " - ", the message of that
\* call and the end of line.
C16_ConcurrentLogsOneLineEach ==
    /\ (CloseCalls = {} /\ NoIOFailure) =>
          \A i \in LogCalls : Returned(i) => calls[i].err = ""
    /\ \A i \in LogCalls :
          /\ Cardinality(LinesOf(i)) <= 1
          /\ (\/ calls[i].err = ""
              \/ ~Returned(i) /\ logPc[calls[i].caller] = "sync") =>
                Cardinality(LinesOf(i)) = 1
    /\ \A j \in 1..Len(file.data) :
          LET line == file.data[j].line
              message == calls[file.data[j].call].message
          IN /\ file.data[j].call \in LogCalls
             /\ Len(line) = Len(message) + 3
             /\ line[2] = " - "
             /\ SubSeq(line, 3, Len(line) - 1) = message
             /\ line[Len(line)] = "\n"

\* Three goroutines have logged at once, all with success, and the lines are
\* in the file in another order than the calls were made.
C16_Witness ==
    /\ Cardinality({i \in LogCalls : calls[i].err = ""}) = 3
    /\ Len(file.data) = 3
    /\ file.data[1].call # 1
    /\ \E j \in 1..3 : calls[file.data[j].call].message = <<>>

\* C17: when Log has returned no error, its line is in the flushed part of
\* the file; and a goroutine between the check of fl.closed and the return
\* of Sync holds the mutex.
C17_SuccessMeansFlushed ==
    /\ \A i \in LogCalls :
          calls[i].err = "" => \E j \in LinesOf(i) : j <= file.synced
    /\ \A g \in DOMAIN logPc : logPc[g] \in {"locked", "sync"} => mutex = g

\* One call of Log has returned with its line flushed while the line of
\* another is written and not yet flushed.
C17_Witness ==
    /\ \E i \in LogCalls : calls[i].err = ""
    /\ file.synced >= 1
    /\ file.synced < Len(file.data)

\* C18: the consumer loop calls Log once for each event it takes, in the
\* order it takes them and whatever the operation, with the message
\* "Received update for key: <key>, Operation: <operation>" of that event.
C18_EveryEventLoggedOnce ==
    /\ Cardinality(LogCalls) = Len(delivered)
    /\ \A k \in 1..Len(delivered) :
          /\ calls[k].op = "Log"
          /\ calls[k].caller = MainCaller
          /\ calls[k].message =
                <<"Received update for key: ">> \o delivered[k].Key
                    \o <<", Operation: ">> \o delivered[k].Operation

\* The loop has taken three events, a write among them and one with an empty
\* operation, and Log has returned for each.
C18_Witness ==
    /\ Len(delivered) = 3
    /\ \E k \in 1..3 : delivered[k].Operation = <<"set">>
    /\ \E k \in 1..3 : delivered[k].Operation = <<>>
    /\ \A k \in 1..3 : Returned(k)

\* C19: main closes the FileLogger only when its loop has ended, the context
\* is cancelled and every call of Log has returned, and never calls Log
\* after that; it closes the notifier only when Close of the FileLogger has
\* returned.
C19_ShutdownOrder ==
    /\ (CloseCalls # {} \/ flClosed) =>
          /\ consPc \in {"ctx_done", "chan_closed"}
          /\ ctxDone
          /\ \A i \in LogCalls : Returned(i) /\ i < Len(calls)
    /\ client = "closed" => (flClosed /\ CloseReturned)

\* main has logged events, left its loop and run its three deferred calls.
C19_Witness ==
    /\ deferred = Len(DeferOrder)
    /\ client = "closed"
    /\ flClosed
    /\ file.data # <<>>

\* C20: no raw message the goroutine received has two lines in the file (the
\* events carry the time their message was received, which tells them
\* apart); it may have none.
C20_AtMostOnce ==
    \A n \in 1..Len(taken) :
        Cardinality({j \in 1..Len(file.data) :
                        delivered[file.data[j].call].Timestamp = n}) <= 1

\* Of three raw messages two have their line in the file and one has none.
C20_Witness ==
    /\ Len(taken) = 3
    /\ Len(file.data) = 2
    /\ fwdPc = "done"
    /\ consPc \in {"ctx_done", "chan_closed"}

\* C21: the notification channel of every key the server has stored, the
\* namespace prefix followed by the key, matches the keyspace pattern of the
\* logger's subscription to radius:acct:* (without which no line for the key
\* is ever logged).
C21_StoredKeyMatchesSubscription ==
    \A key \in DOMAIN db :
        GlobMatch(KeyspacePattern(PatAcct), KeyspacePrefix \o key)

\* C22: the key of a Start, Stop or Interim event is
\* radius:acct:{username}:{session id}:{timestamp}:{tag}, with the tag start,
\* stop or interim as its last segment.
C22_KeyEndsWithVariantTag ==
    recOut.key # <<>> =>
        LET r == rec[1]
            tag == CASE r.Type = "Start" -> "start"
                     [] r.Type = "Stop" -> "stop"
                     [] r.Type = "Interim" -> "interim"
        IN recOut.key[1] = <<"radius:acct:", r.Base.Username, ":",
                             r.Base.AcctSessionID, ":", r.Base.Timestamp,
                             ":", tag>>

\* The required fields of an event in the order they are to be checked, each
\* with its name and whether it is present.
RequiredFields(r) ==
    <<[name |-> "username", present |-> r.Base.Username # ""],
      [name |-> "acct session id", present |-> r.Base.AcctSessionID # ""],
      [name |-> "NAS IP address", present |-> r.Base.NASIPAddress # ""],
      [name |-> "client IP", present |-> r.Base.ClientIP # ""]>>
    \o CASE r.Type = "Start" ->
              <<[name |-> "framed IP address", present |-> r.FramedIPAddress # ""]>>
         [] r.Type = "Stop" ->
              <<[name |-> "session time", present |-> r.SessionTime # 0],
                [name |-> "terminate cause", present |-> r.TerminateCause # ""]>>
         [] r.Type = "Interim" ->
              <<[name |-> "session time", present |-> r.SessionTime # 0]>>

C24_NonPositiveSessionTimeRejected ==
    (/\ recOut.validated
     /\ rec[1].Type \in {"Stop", "Interim"}
     /\ rec[1].SessionTime <= 0) =>
        /\ recOut.err # <<>>
        /\ (\A i \in 1..4 : RequiredFields(rec[1])[i].present) =>
              recOut.err[1] = "session time"

\* The attributes a packet of each status type is to carry.
RequiredAttrs(statusType) ==
    {"UserName", "AcctSessionID", "NASIPAddress"}
    \cup CASE statusType = 1 -> {"FramedIPAddress"}
           [] statusType = 2 -> {"AcctSessionTime", "AcctTerminateCause"}
           [] statusType = 3 -> {"AcctSessionTime"}

\* The field of the event that an attribute of the packet goes to.
FieldOf(r, attr) ==
    CASE attr = "UserName" -> r.Base.Username
      [] attr = "AcctSessionID" -> r.Base.AcctSessionID
      [] attr = "NASIPAddress" -> r.Base.NASIPAddress
      [] attr = "FramedIPAddress" -> r.FramedIPAddress
      [] attr = "AcctSessionTime" -> r.SessionTime
      [] attr = "AcctTerminateCause" -> r.TerminateCause

ZeroOf(attr) == IF attr = "AcctSessionTime" THEN 0 ELSE ""

\* C25: a request whose packet lacks a required attribute is parsed without
\* error into an event whose field for that attribute has the zero value,
\* the event fails Validate and Store is not called for it.
C25_AbsentAttributeRejected ==
    \A i \in 1..Len(handled) :
        LET h == handled[i]
            p == h.req.Packet
        IN (/\ h.req.Code = "Accounting-Request"
            /\ p.AcctStatusType \in {<<1>>, <<2>>, <<3>>}) =>
               \A attr \in RequiredAttrs(p.AcctStatusType[1]) :
                   p[attr] = <<>> =>
                       /\ h.parseErr = <<>>
                       /\ FieldOf(h.record[1], attr) = ZeroOf(attr)
                       /\ h.validateErr # <<>>
                       /\ h.storeCalls = 0

\* C26: ParseRADIUSPacket on the nil packet fails with "packet cannot be nil"
\* and looks up no attribute; on a status type other than 1, 2 and 3 it
\* fails with an error that ends with that value and returns no event; on
\* 1, 2 and 3 it returns one event, a Start, Stop and Interim record, whose
\* GetType is 1, 2 and 3.
C26_ParseAgreesWithReference ==
    pktOut.done =>
        IF pktIn = <<>>
        THEN /\ pktOut.event = <<>>
             /\ pktOut.err = <<"packet cannot be nil">>
             /\ pktOut.reads = {}
        ELSE LET st == IF pktIn[1].AcctStatusType = <<>> THEN 0
                       ELSE pktIn[1].AcctStatusType[1]
             IN IF st \notin {1, 2, 3}
                THEN /\ pktOut.event = <<>>
                     /\ pktOut.err # <<>>
                     /\ pktOut.err[Len(pktOut.err)] = ToString(st)
                ELSE /\ pktOut.err = <<>>
                     /\ Len(pktOut.event) = 1
                     /\ pktOut.event[1].Type =
                           <<"Start", "Stop", "Interim">>[st]
                     /\ GetType(pktOut.event[1]) = st

\* A packet with status type 7 was parsed: the error names 7.
C26_Witness ==
    /\ pktOut.done
    /\ pktIn # <<>>
    /\ pktIn[1].AcctStatusType = <<7>>
    /\ pktOut.err = <<"unsupported accounting status type: ", "7">>

\* C27: the handler writes one response for each request, and none before
\* it is done with the packet: an accounting request has been parsed, one
\* that parsed has been validated, one that is valid has been handed to the
\* store.
C27_OneResponseAfterProcessing ==
    /\ hPc # "idle" => hCur.responses = 0
    /\ \A i \in 1..Len(handled) :
          LET h == handled[i]
          IN /\ h.responses = 1
             /\ h.req.Code = "Accounting-Request" => h.parsed
             /\ (h.parsed /\ h.parseErr = <<>>) => h.validated
             /\ (h.validated /\ h.validateErr = <<>>) => h.storeCalls >= 1

\* Two requests were answered: one whose record was invalid, one whose write
\* to the store failed.
C27_Witness ==
    /\ Len(handled) = 2
    /\ handled[1].validateErr # <<>>
    /\ handled[1].responses = 1
    /\ handled[2].storeErr # ""
    /\ handled[2].responses = 1

\* The requests handled and the one the handler is on.
Seen == handled \o (IF hPc = "idle" THEN <<>> ELSE <<hCur>>)

\* C28: for each request Store is called at most once, and only for an
\* accounting request whose packet parsed without error into an event that
\* Validate accepted; every key in the database is the key of such an event.
C28_StoreAtMostOnceValidOnly ==
    /\ \A i \in 1..Len(Seen) :
          LET h == Seen[i]
          IN /\ h.storeCalls <= 1
             /\ h.storeCalls >= 1 =>
                   /\ h.req.Code = "Accounting-Request"
                   /\ h.parsed /\ h.parseErr = <<>> /\ h.record # <<>>
                   /\ h.validated /\ h.validateErr = <<>>
    /\ \A key \in DOMAIN db :
          \E i \in 1..Len(Seen) :
              /\ Seen[i].storeCalls = 1
              /\ Seen[i].storeErr = ""
              /\ GenerateRedisKey(Seen[i].record[1]) = key

\* A request whose write failed and a request whose packet did not parse
\* have been handled: one call of Store, and none.
C28_Witness ==
    /\ Len(handled) = 2
    /\ handled[1].storeErr # ""
    /\ handled[1].storeCalls = 1
    /\ handled[2].parseErr # <<>>
    /\ handled[2].storeCalls = 0
    /\ DOMAIN db = {}

\* C29: the first Close of the RedisStorage returns nil and every Close
\* after it returns an error.
C29_SecondStorageCloseFails ==
    \A i \in 1..Len(closeResults) : (closeResults[i] = "") = (i = 1)

\* Close was called three times.
C29_Witness ==
    /\ Len(closeResults) = 3
    /\ closeResults[2] = ErrClosed
    /\ storeClient = "closed"

Passed(proc, step) ==
    \E i \in 1..Len(boot[proc].results) :
        boot[proc].results[i].step = step /\ boot[proc].results[i].ok

\* The steps of proc that test what it depends on.
DependencyChecks(proc) ==
    IF proc = "server" THEN {"storage", "health"}
    ELSE {"notifier", "health", "sink"}

\* The step with which proc begins to serve.
ServeStep(proc) == IF proc = "server" THEN "listen" ELSE "subscribe"

\* C31: the server runs ListenAndServe only when NewRedisStorage (its ping)
\* and HealthCheck have succeeded, the logger calls Subscribe and enters its
\* loop only when NewRedisNotifier, HealthCheck and NewFileLogger have
\* succeeded; when one of these fails the process has exited, with no step
\* run after the failed one, and does not serve.
C31_NoServingWithoutDependencies ==
    \A proc \in {"server", "logger"} :
        LET p == boot[proc]
        IN /\ \A i \in 1..Len(p.results) :
                 /\ p.results[i].step = ServeStep(proc) =>
                       \A d \in DependencyChecks(proc) :
                           \E j \in 1..(i - 1) :
                               p.results[j].step = d /\ p.results[j].ok
                 /\ (p.results[i].step \in DependencyChecks(proc)
                        /\ ~p.results[i].ok) =>
                       (p.state = "exited" /\ i = Len(p.results))
           /\ p.state = "serving" =>
                 \A d \in DependencyChecks(proc) : Passed(proc, d)

\* The server serves after its checks, and the logger has exited on a failed
\* health check of the notifier.
C31_Witness ==
    /\ boot["server"].state = "serving"
    /\ Passed("server", "storage") /\ Passed("server", "health")
    /\ boot["logger"].state = "exited"
    /\ boot["logger"].results[Len(boot["logger"].results)] =
          [step |-> "health", ok |-> FALSE]

\* C32: when the goroutine receives a raw message whose channel does not
\* begin with "__keyspace@0__:", nothing is put on eventChan, eventChan is
\* not closed, the PubSub and its patterns are as before, and the goroutine
\* is at its outer select again, holding no event.
C32_ForeignMessageDropped ==
    [][(taken' # taken
          /\ ~HasPrefix(taken'[Len(taken')].Channel, KeyspacePrefix)) =>
        /\ eventChan' = eventChan
        /\ chanClosed' = chanClosed
        /\ fwdEvent' = <<>>
        /\ fwdPc' = "select"
        /\ dropped' = dropped
        /\ UNCHANGED notifierVars]_vars

\* A message of another database was received and dropped, and a matching
\* message received after it has reached the consumer on the open stream.
C32_Witness ==
    /\ ~chanClosed
    /\ \E i \in 1..Len(taken) :
          /\ ~HasPrefix(taken[i].Channel, KeyspacePrefix)
          /\ \E k \in 1..Len(delivered) : delivered[k].Timestamp > i

\* C33: a call of Store by the handler that returns nil adds to the database
\* one entry, under GenerateRedisKey of the event, with the JSON of the event
\* and the TTL of the configuration, which is positive, and leaves every
\* other entry as it was; a call that fails writes nothing; nothing else
\* writes to the database.
C33_StoreWritesOneEntryWithTTL ==
    [][/\ db' # db => (hPc = "store" /\ hPc' = "respond")
       /\ (hPc = "store" /\ hPc' = "respond") =>
             LET key == GenerateRedisKey(hCur.record[1])
             IN IF hCur'.storeErr = ""
                THEN /\ DOMAIN db' = DOMAIN db \cup {key}
                     /\ db'[key].value = Marshal(hCur.record[1])
                     /\ db'[key].ttl = GetRecordTTL(cfgOut.cfg[1])
                     /\ db'[key].ttl > 0
                     /\ \A k \in DOMAIN db \ {key} : db'[k] = db[k]
                ELSE db' = db]_vars

\* Two events were stored, each under its key with the configured TTL.
C33_Witness ==
    /\ Len(handled) = 2
    /\ Cardinality(DOMAIN db) = 2
    /\ \A i \in 1..2 :
          /\ handled[i].storeErr = ""
          /\ GenerateRedisKey(handled[i].record[1]) \in DOMAIN db
          /\ db[GenerateRedisKey(handled[i].record[1])].ttl = 24

\* C34: the mutex is held only by a goroutine that is inside Log or Close
\* past its Lock; every call of Log and of Close returns, whatever it
\* returns; and once Close is called the logger becomes closed and stays so.
C34_EveryCallReturns ==
    /\ [](\A g \in LogCallers :
            /\ mutex = g => logPc[g] \in {"locked", "sync"}
            /\ logPc[g] \in {"locked", "sync"} => mutex = g)
    /\ \A g \in LogCallers : (logPc[g] # "idle") ~> (logPc[g] = "idle")
    /\ (\E i \in 1..Len(calls) : calls[i].op = "Close") ~> [](flClosed)

\* A Log whose flush failed, a Close and a Log on the closed logger have all
\* returned, and the mutex is free.
C34_Witness ==
    /\ mutex = ""
    /\ flClosed
    /\ \A i \in 1..Len(calls) : calls[i].err # "pending"
    /\ \E i \in 1..Len(calls) : calls[i].op = "Log" /\ calls[i].err = ErrIO
    /\ \E i \in 1..Len(calls) : calls[i].op = "Log" /\ calls[i].err = ErrLoggerClosed
    /\ \E i \in 1..Len(calls) : calls[i].op = "Close"

\* C35: the goroutine of each call of Subscribe receives raw messages only
\* from the PubSub that its own call created.
C35_TaskReadsOwnSubscription ==
    \A k \in 1..Len(multi.subs) :
        \A i \in 1..Len(multi.subs[k].took) : multi.subs[k].took[i].from = k

\* C36: eventChan goes from open to closed only in a step of the forwarding
\* goroutine with which the goroutine ends, the goroutine never ends without
\* closing it, and once it is closed it stays closed, the goroutine stays
\* ended and nothing is added to the buffer (the consumer can still take
\* from it).
C36_StreamClosedOnceByOwnTask ==
    [][/\ chanClosed' # chanClosed =>
             /\ ~chanClosed /\ chanClosed'
             /\ fwdPc \in {"select", "send"}
             /\ fwdPc' = "done"
       /\ (fwdPc # "done" /\ fwdPc' = "done") => chanClosed'
       /\ chanClosed =>
             /\ chanClosed'
             /\ fwdPc' = "done"
             /\ \/ eventChan' = eventChan
                \/ eventChan # <<>> /\ eventChan' = Tail(eventChan)]_vars

\* The context was cancelled with events in the queue, the notifier was
\* closed and patterns were unsubscribed; the goroutine has ended and the
\* stream is closed.
C36_Witness ==
    /\ chanClosed
    /\ fwdPc = "done"
    /\ ctxDone
    /\ client = "closed"
    /\ eventChan # <<>>
    /\ delivered # <<>>

\* C37: when a call of Log has returned an error, the file has no line
\* written by that call.
C37_FailedLogWritesNothing ==
    \A i \in LogCalls :
        (Returned(i) /\ calls[i].err # "") => LinesOf(i) = {}

\* C38: the consumer loop of main ends only on the cancelled context or on
\* the closed and drained stream; a call of Log that returns an error leaves
\* the loop, the context and the deferred calls as they are; and each event
\* the loop takes is handed to Log, whatever earlier calls returned.
C38_FailedLogKeepsLoop ==
    [][/\ (consPc = "loop" /\ consPc' # "loop") =>
             \/ consPc' = "ctx_done" /\ ctxDone
             \/ consPc' = "chan_closed" /\ chanClosed /\ eventChan = <<>>
       /\ (\E i \in 1..Len(calls) :
              /\ calls[i].op = "Log"
              /\ calls[i].err = "pending"
              /\ calls'[i].err \notin {"pending", ""}) =>
             /\ consPc' = consPc
             /\ ctxDone' = ctxDone
             /\ deferred' = deferred
             /\ eventChan' = eventChan
       /\ delivered' # delivered =>
             /\ Len(calls') = Len(calls) + 1
             /\ calls'[Len(calls')].op = "Log"
             /\ calls'[Len(calls')].err = "pending"
             /\ calls'[Len(calls')].message =
                   FormatMessage(delivered'[Len(delivered')])]_vars

\* Log failed for one event, and a later event was logged, and the loop is
\* still running.
C38_Witness ==
    /\ consPc = "loop"
    /\ \E i \in 1..Len(calls) :
          /\ calls[i].op = "Log"
          /\ calls[i].err \in {ErrWrite, ErrIO}
          /\ \E j \in (i + 1)..Len(calls) :
                /\ calls[j].op = "Log"
                /\ calls[j].err = ""
                /\ LinesOf(j) # {}

\* C39: two events that differ in user name, session identifier, timestamp
\* or variant are stored under keys with different texts, so that after
\* both writes the first event is still read under its key.
C39_KeyInjective ==
    Len(recOut.key) = 2 =>
        /\ KeyText(recOut.key[1]) # KeyText(recOut.key[2])
        /\ RedisGet(db, recOut.key[1]) = <<Marshal(rec[1])>>

\* A value of an environment variable that is a decimal number.
IsNumber(s) == s # <<>> /\ \A i \in 1..Len(s) : s[i] \in DigitChars

\* The variables other than REDIS_PORT have values LoadFromEnv accepts.
OthersSet ==
    /\ env.RADIUS_SHARED_SECRET # <<>>
    /\ env.REDIS_HOST # <<>>
    /\ IsNumber(env.RECORD_TTL_HOURS)
    /\ env.LOG_LEVEL \in {<<"debug">>, <<"info">>, <<"warn">>, <<"error">>}
    /\ env.LOG_FILE # <<>>

\* C40: LoadFromEnv fails and returns no Config when REDIS_PORT is set to
\* something that is not a number; otherwise, when the other variables are
\* set, GetRedisAddr of the Config is REDIS_HOST:REDIS_PORT, with 6379 for
\* a REDIS_PORT that is not set.
C40_RedisPortHonoured ==
    cfgOut.loaded =>
        /\ (env.REDIS_PORT # <<>> /\ ~IsNumber(env.REDIS_PORT)) =>
              (cfgOut.err # <<>> /\ cfgOut.cfg = <<>>)
        /\ (OthersSet /\ IsNumber(env.REDIS_PORT) /\ cfgOut.checked) =>
              cfgOut.addr = <<env.REDIS_HOST \o <<":">> \o env.REDIS_PORT>>
        /\ (OthersSet /\ env.REDIS_PORT = <<>> /\ cfgOut.checked) =>
              cfgOut.addr = <<env.REDIS_HOST \o <<":", "6", "3", "7", "9">>>>

=============================================================================
